---- MODULE Spec2Model ----
(***************************************************************************)
(* A state-machine model of the in-memory transactional storage engine:   *)
(* vertices and edges with their delta (undo) chains, the transaction      *)
(* engine (start/commit timestamps, commit log), the accessors' write      *)
(* operations, Commit / Abort / FinalizeTransaction, unique and existence  *)
(* constraint validation at commit, and the garbage collector.             *)
(*                                                                         *)
(* Every action is one storage operation executed under the locks the     *)
(* code takes for it (object locks, engine lock), i.e. atomically.         *)
(***************************************************************************)
EXTENDS Integers, Sequences, FiniteSets, TLC

VARIABLES
  role,                    \* replication_state_.GetRole(): "MAIN" | "REPLICA"
  properties_on_edges,     \* config_.items.properties_on_edges (frozen)
  vertices,                \* vertices_ skip-list: gid -> Vertex
  edges,                   \* edges_ skip-list: gid -> Edge
  vertex_id_,              \* next vertex gid
  edge_id_,                \* next edge gid
  timestamp_,              \* next start/commit timestamp
  transaction_id_,         \* next transaction id
  edge_count_,             \* storage edge counter
  transactions,            \* every accessor/transaction ever opened, in opening order
  committed_transactions,  \* committed_transactions_ list (transaction indexes)
  garbage_undo_buffers,    \* garbage_undo_buffers_ list of [ts, tx]
  deleted_vertices,        \* deleted_vertices_ list of gids
  deleted_edges,           \* deleted_edges_ list of gids
  garbage_vertices,        \* garbage_vertices_ list of [ts, gid]
  commit_log,              \* commit_log_: the set of timestamps marked finished
  existence_constraints,   \* set of <<label, property>>
  unique_constraints,      \* <<label, property set>> -> set of Entry
  wal_file,                \* records appended to the WAL, in file order
  snapshot_wal_mode,       \* config_.durability.snapshot_wal_mode (frozen)
  uuid_,                   \* the UUID the storage stamps its durability files with
  snapshot_directory_,     \* the snapshot files on disk, oldest first
  restarts,                \* ghost: the number of processes that ended
  backup_directory_,       \* .backup: the snapshot files and the WAL records moved there
  storage_mode_,           \* IN_MEMORY_TRANSACTIONAL or IN_MEMORY_ANALYTICAL
  threads,                 \* per thread inside a call: the steps left, the locks held, the file written
  fatal,                   \* an MG_ASSERT / LOG_FATAL fired: the process is gone
  result,                  \* what the last operation returned
  history,                 \* ghost: per object, the committed versions in commit order
  marked_finished,         \* ghost: timestamp -> the number of MarkFinished calls made with it
  gc_full_scan_vertices_delete_,  \* an analytical transaction deleted a vertex since the last pass
  gc_full_scan_edges_delete_,     \* an analytical transaction deleted an edge since the last pass
  wal_file_,               \* the WAL file that is open: << >> (std::nullopt) or <<its sequence number>>
  wal_seq_num_,            \* the sequence number of the next WAL file
  wal_directory_           \* the WAL files: [seq_num, first, last], the records wal_file[first..last]

vars == <<role, properties_on_edges, vertices, edges, vertex_id_, edge_id_, timestamp_,
          transaction_id_, edge_count_, transactions, committed_transactions,
          garbage_undo_buffers, deleted_vertices, deleted_edges, garbage_vertices,
          commit_log, existence_constraints, unique_constraints, wal_file, fatal,
          result, history, snapshot_wal_mode, uuid_, snapshot_directory_,
          restarts, backup_directory_, storage_mode_, threads, marked_finished,
          gc_full_scan_vertices_delete_, gc_full_scan_edges_delete_,
          wal_file_, wal_seq_num_, wal_directory_>>

----------------------------------------------------------------------------
(* Bounds of the model. *)

\* transactions (accessors) opened in one behaviour
MaxTx == 2
\* transactions opened in one behaviour of a replica (readers and the applier)
MaxReplicaTx == 3
\* successful write operations in one behaviour
MaxOps == 2
\* vertices created by transactions
MaxCreatedVertices == 1
\* edges created by transactions
MaxCreatedEdges == 2
\* edges the store holds after construction, each from vertex 0 to vertex 1
RecoveredEdges == 1
\* vertices the store holds after construction (recovered from a snapshot)
RecoveredVertices == 2
\* the snapshot's next timestamp: every recovered object is older than it
RecoveredNextTimestamp == 1
\* snapshots are taken while the timestamp is below this
MaxTimestamp == 5
\* the processes that end
MaxRestarts == 2
\* threads that take locks step by step
MaxThreads == 2
\* config_.durability.snapshot_retention_count
snapshot_retention_count == 2
\* gids of vertices: 0 .. MaxVertices - 1
MaxVertices == RecoveredVertices + MaxCreatedVertices
\* gids of edges: 0 .. MaxEdges - 1
MaxEdges == RecoveredEdges + MaxCreatedEdges

(* Program constants. *)

\* first transaction id: far above every timestamp a run can reach
\* (1 << 63 in the program; any value above all reachable timestamps behaves alike)
kTransactionInitialId == 1000

Null == 0
Values == {1, 2}
PropertyIds == {1}
LabelIds == {1}
EdgeTypeIds == {1}
Views == {"OLD", "NEW"}

NoTimestamp == -1

\* a thread that is in no call of the storage
IdleThread == [op |-> "", script |-> << >>, held |-> {}, io |-> ""]

Min(S) == CHOOSE x \in S : \A y \in S : x <= y
Max(S) == CHOOSE x \in S : \A y \in S : x >= y
Range(s) == {s[i] : i \in DOMAIN s}

RECURSIVE Sum(_, _)
Sum(f, S) == IF S = {} THEN 0 ELSE LET x == CHOOSE x \in S : TRUE IN f[x] + Sum(f, S \ {x})


----------------------------------------------------------------------------
(* Data model. *)

NoProperties == [k \in PropertyIds |-> Null]

\* Vertex{gid, delta}: labels, properties, in_edges, out_edges, deleted, delta chain
\* (newest delta first).
NewVertex(chain) ==
  [labels |-> {}, properties |-> NoProperties, in_edges |-> {}, out_edges |-> {},
   deleted |-> FALSE, delta |-> chain]

\* Edge(gid, delta)
NewEdge(chain) == [properties |-> NoProperties, deleted |-> FALSE, delta |-> chain]

\* A delta: the undo record of one forward mutation. tx names the transaction
\* whose commit-timestamp cell the delta shares, n its place in that
\* transaction's delta buffer.
MkDelta(t, n, action, label, key, value, link) ==
  [tx |-> t, n |-> n, action |-> action, label |-> label,
   key |-> key, value |-> value, link |-> link]

\* an entry of a transaction's delta buffer: the delta and the object it was linked to
BufferEntry(kind, gid, d) == [kind |-> kind, gid |-> gid, d |-> d]

NoLink == <<0, 0, 0>>

\* delta->timestamp->load(): the transaction id until Commit stores the commit timestamp
DeltaTs(d) == transactions[d.tx].commit_timestamp

Object(kind, gid) == IF kind = "VERTEX" THEN vertices[gid] ELSE edges[gid]
ObjectExists(kind, gid) ==
  IF kind = "VERTEX" THEN gid \in DOMAIN vertices ELSE gid \in DOMAIN edges

\* the data of an object, without its chain
VertexData(v) == [labels |-> v.labels, properties |-> v.properties, in_edges |-> v.in_edges,
                  out_edges |-> v.out_edges, deleted |-> v.deleted]
EdgeData(e) == [properties |-> e.properties, deleted |-> e.deleted]

Started == DOMAIN transactions
Active == {t \in Started : transactions[t].is_transaction_active_}

----------------------------------------------------------------------------
(* Commit log. *)

\* CommitLog::OldestActive(): the lowest timestamp not marked finished
OldestActive == Min({n \in 0..timestamp_ + 1 : n \notin commit_log})

----------------------------------------------------------------------------
(* MVCC reads. *)

\* ApplyDeltasForRead: the deltas a reader must undo, i.e. the chain up to (not
\* including) the first delta that was committed before the reader started or,
\* for View::NEW, that is the reader's own.
RECURSIVE ReadStop(_, _, _, _)
ReadStop(t, chain, view, i) ==
  IF i > Len(chain) THEN Len(chain)
  ELSE LET ts == DeltaTs(chain[i]) IN
       IF ts < transactions[t].start_timestamp THEN i - 1
       ELSE IF view = "NEW" /\ ts = transactions[t].transaction_id THEN i - 1
       ELSE ReadStop(t, chain, view, i + 1)

ApplyDeltasForRead(t, chain, view) == SubSeq(chain, 1, ReadStop(t, chain, view, 1))

\* the callback without the undoing of SET_PROPERTY
GetPropertyCallbackKeepValue(acc, d, property) ==
  CASE d.action = "DELETE_OBJECT" -> [acc EXCEPT !.invalid = TRUE]
    [] d.action = "RECREATE_OBJECT" -> [acc EXCEPT !.deleted = FALSE]
    [] OTHER -> acc

\* the callback of EdgeAccessor::GetProperty, applied to one delta
GetPropertyCallback(acc, d, property) ==
  CASE d.action = "SET_PROPERTY" ->
         IF d.key = property THEN [acc EXCEPT !.value = d.value] ELSE acc
    [] d.action = "DELETE_OBJECT" -> [acc EXCEPT !.invalid = TRUE]
    [] d.action = "RECREATE_OBJECT" -> [acc EXCEPT !.deleted = FALSE]
    [] OTHER -> acc

RECURSIVE FoldGetProperty(_, _, _)
FoldGetProperty(acc, ds, property) ==
  IF ds = << >> THEN acc
  ELSE FoldGetProperty(GetPropertyCallback(acc, Head(ds), property), Tail(ds), property)

\* EdgeAccessor::GetProperty(property, view)
GetProperty(t, e, property, view) ==
  LET edge == edges[e]
      acc  == FoldGetProperty([deleted |-> edge.deleted, value |-> edge.properties[property],
                               invalid |-> FALSE],
                              ApplyDeltasForRead(t, edge.delta, view), property)
  IN  IF acc.invalid THEN [error |-> "FATAL", value |-> Null]
      ELSE IF acc.deleted THEN [error |-> "DELETED_OBJECT", value |-> Null]
      ELSE [error |-> "OK", value |-> acc.value]

\* the callback without the undoing of SET_PROPERTY
PropertiesCallbackKeepValue(acc, d) ==
  CASE d.action = "DELETE_OBJECT" -> [acc EXCEPT !.invalid = TRUE]
    [] d.action = "RECREATE_OBJECT" -> [acc EXCEPT !.deleted = FALSE]
    [] OTHER -> acc

\* the callback of EdgeAccessor::Properties, applied to one delta
PropertiesCallback(acc, d) ==
  CASE d.action = "SET_PROPERTY" ->
         IF acc.properties[d.key] # Null
           THEN IF d.value = Null
                  THEN [acc EXCEPT !.properties[d.key] = Null]
                  ELSE [acc EXCEPT !.properties[d.key] = d.value]
           ELSE IF d.value # Null
                  THEN [acc EXCEPT !.properties[d.key] = d.value]
                  ELSE acc
    [] d.action = "DELETE_OBJECT" -> [acc EXCEPT !.invalid = TRUE]
    [] d.action = "RECREATE_OBJECT" -> [acc EXCEPT !.deleted = FALSE]
    [] OTHER -> acc

RECURSIVE FoldProperties(_, _)
FoldProperties(acc, ds) ==
  IF ds = << >> THEN acc ELSE FoldProperties(PropertiesCallback(acc, Head(ds)), Tail(ds))

\* EdgeAccessor::Properties(view)
Properties(t, e, view) ==
  LET edge == edges[e]
      acc  == FoldProperties([deleted |-> edge.deleted, properties |-> edge.properties,
                              invalid |-> FALSE],
                             ApplyDeltasForRead(t, edge.delta, view))
  IN  IF acc.invalid THEN [error |-> "FATAL", properties |-> NoProperties]
      ELSE IF acc.deleted THEN [error |-> "DELETED_OBJECT", properties |-> NoProperties]
      ELSE [error |-> "OK", properties |-> acc.properties]

\* the vertex accessor's reads: undo one delta on a local copy of the vertex
VertexCallback(acc, d) ==
  CASE d.action = "ADD_LABEL" -> [acc EXCEPT !.labels = @ \cup {d.label}]
    [] d.action = "REMOVE_LABEL" -> [acc EXCEPT !.labels = @ \ {d.label}]
    [] d.action = "SET_PROPERTY" -> [acc EXCEPT !.properties[d.key] = d.value]
    [] d.action = "ADD_IN_EDGE" -> [acc EXCEPT !.in_edges = @ \cup {d.link}]
    [] d.action = "ADD_OUT_EDGE" -> [acc EXCEPT !.out_edges = @ \cup {d.link}]
    [] d.action = "REMOVE_IN_EDGE" -> [acc EXCEPT !.in_edges = @ \ {d.link}]
    [] d.action = "REMOVE_OUT_EDGE" -> [acc EXCEPT !.out_edges = @ \ {d.link}]
    [] d.action = "DELETE_OBJECT" -> [acc EXCEPT !.exists = FALSE]
    [] d.action = "RECREATE_OBJECT" -> [acc EXCEPT !.deleted = FALSE]

RECURSIVE FoldVertex(_, _)
FoldVertex(acc, ds) ==
  IF ds = << >> THEN acc ELSE FoldVertex(VertexCallback(acc, Head(ds)), Tail(ds))

\* the state of vertex v as transaction t sees it under view
VertexView(t, v, view) ==
  LET vertex == vertices[v] IN
  FoldVertex([exists |-> TRUE, deleted |-> vertex.deleted, labels |-> vertex.labels,
              properties |-> vertex.properties, in_edges |-> vertex.in_edges,
              out_edges |-> vertex.out_edges],
             ApplyDeltasForRead(t, vertex.delta, view))

\* FindVertex(gid, view): the vertex is in the skip-list and visible
FindVertex(t, v, view) ==
  /\ v \in DOMAIN vertices
  /\ LET vv == VertexView(t, v, view) IN vv.exists /\ ~vv.deleted

\* the edge accessors transaction t can hold: the entries OutEdges(view) returns
\* on the vertices it can find, as [edge, edge_type, from_vertex, to_vertex]
EdgeAccessors(t, view) ==
  UNION {{[edge |-> l[3], edge_type |-> l[1], from_vertex |-> v, to_vertex |-> l[2]] :
            l \in VertexView(t, v, view).out_edges} :
         v \in {w \in DOMAIN vertices : FindVertex(t, w, view)}}

\* the vertex / edge accessors a transaction can hold, whatever the view it
\* obtained them with
VertexAccessors(t) == {v \in DOMAIN vertices : \E view \in Views : FindVertex(t, v, view)}
AllEdgeAccessors(t) == UNION {EdgeAccessors(t, view) : view \in Views}

----------------------------------------------------------------------------
(* The write path: PrepareForWrite and CreateAndLinkDelta. *)

IsTransactionId(ts) == ts >= kTransactionInitialId

\* PrepareForWrite(transaction, object): fails when the head delta carries a
\* foreign transaction id
PrepareForWrite(t, chain) ==
  \/ chain = << >>
  \/ LET ts == DeltaTs(chain[1]) IN
       ~(IsTransactionId(ts) /\ ts # transactions[t].transaction_id)

\* CreateAndLinkDelta on a vertex / an edge: the new delta becomes the chain head
LinkVertexDelta(vs, v, d) == [vs EXCEPT ![v].delta = <<d>> \o @]
LinkEdgeDelta(es, e, d) == [es EXCEPT ![e].delta = <<d>> \o @]

\* the transaction's record after it created the buffer entries bs in one operation
AfterWrite(t, bs) ==
  [transactions EXCEPT ![t].deltas = @ \o bs, ![t].ops = @ + 1,
     ![t].before = @ \cup
        {[kind |-> b.kind, gid |-> b.gid,
          created |-> b.d.action = "DELETE_OBJECT",
          data |-> IF b.d.action = "DELETE_OBJECT" THEN << >>
                   ELSE IF b.kind = "VERTEX" THEN VertexData(vertices[b.gid])
                   ELSE EdgeData(edges[b.gid])] :
           b \in {x \in Range(bs) : ~\E o \in transactions[t].before :
                                        o.kind = x.kind /\ o.gid = x.gid}}]

\* what an operation returned: the error with the operation and the transaction
\* that got it, or plain success
Result(t, op, error) ==
  IF error = "OK" THEN [tx |-> 0, op |-> "", error |-> "OK", violation |-> << >>]
  ELSE [tx |-> t, op |-> op, error |-> error, violation |-> << >>]

\* the transaction's record once it terminated, its delta buffer being ds
Finished(tx, ds) ==
  [tx EXCEPT !.deltas = ds, !.is_transaction_active_ = FALSE, !.before = {}]

CanWrite(t) ==
  /\ ~fatal
  /\ t \in Active
  /\ Sum([u \in Started |-> transactions[u].ops], Started) < MaxOps

\* the variables no accessor operation touches
UnchangedEngine ==
  UNCHANGED <<role, gc_full_scan_vertices_delete_, gc_full_scan_edges_delete_,
                 properties_on_edges, snapshot_wal_mode, threads, backup_directory_, storage_mode_, uuid_, snapshot_directory_, restarts, timestamp_, transaction_id_, committed_transactions,
              garbage_undo_buffers, deleted_vertices, deleted_edges, garbage_vertices,
              commit_log, marked_finished, existence_constraints, unique_constraints, wal_file, wal_file_, wal_seq_num_, wal_directory_, history>>

----------------------------------------------------------------------------
(* Storage::Access / CreateTransaction. *)

CreateTransactionUpTo(max) ==
  /\ ~fatal
  /\ Len(transactions) < max
  /\ transactions' = Append(transactions,
        [transaction_id |-> transaction_id_,
         start_timestamp |-> timestamp_,
         commit_timestamp |-> transaction_id_,
         deltas |-> << >>,
         is_transaction_active_ |-> TRUE,
         commit_timestamp_ |-> NoTimestamp,
         ops |-> 0,
         before |-> {}])
  /\ transaction_id_' = transaction_id_ + 1
  /\ timestamp_' = IF role = "REPLICA" THEN timestamp_ ELSE timestamp_ + 1
  /\ result' = Result(Len(transactions) + 1, "CreateTransaction", "OK")
  /\ UNCHANGED <<role, gc_full_scan_vertices_delete_, gc_full_scan_edges_delete_,
                 properties_on_edges, snapshot_wal_mode, threads, backup_directory_, storage_mode_, uuid_, snapshot_directory_, restarts, vertices, edges, vertex_id_, edge_id_, edge_count_,
                 committed_transactions, garbage_undo_buffers, deleted_vertices,
                 deleted_edges, garbage_vertices, commit_log, marked_finished, existence_constraints,
                 unique_constraints, wal_file, wal_file_, wal_seq_num_, wal_directory_, fatal, history>>

CreateTransaction == CreateTransactionUpTo(MaxTx)

----------------------------------------------------------------------------
(* InMemoryAccessor::CreateVertex. *)

CreateVertex(t) ==
  /\ CanWrite(t)
  /\ vertex_id_ < MaxVertices
  /\ LET gid == vertex_id_
         d   == MkDelta(t, Len(transactions[t].deltas) + 1, "DELETE_OBJECT", 0, 0, Null, NoLink)
     IN /\ vertex_id_' = vertex_id_ + 1
        /\ vertices' = vertices @@ (gid :> NewVertex(<<d>>))
        /\ transactions' = AfterWrite(t, <<BufferEntry("VERTEX", gid, d)>>)
        /\ result' = Result(t, "CreateVertex", "OK")
  /\ UNCHANGED <<edges, edge_id_, edge_count_, fatal>>
  /\ UnchangedEngine

----------------------------------------------------------------------------
(* VertexAccessor::AddLabel(label) and VertexAccessor::SetProperty(property, value). *)

\* the checks every write on one vertex makes
VertexWriteError(t, v) ==
  IF ~PrepareForWrite(t, vertices[v].delta) THEN "SERIALIZATION_ERROR"
  ELSE IF vertices[v].deleted THEN "DELETED_OBJECT"
  ELSE "OK"

VertexAddLabel(t, v, label) ==
  /\ CanWrite(t)
  /\ v \in VertexAccessors(t)
  /\ LET error == VertexWriteError(t, v)
         d     == MkDelta(t, Len(transactions[t].deltas) + 1, "REMOVE_LABEL", label, 0, Null,
                          NoLink)
     IN /\ error = "OK" => label \notin vertices[v].labels  \* present: returns false
        /\ result' = Result(t, "AddLabel", error)
        /\ IF error = "OK"
             THEN /\ vertices' = [LinkVertexDelta(vertices, v, d) EXCEPT
                                    ![v].labels = @ \cup {label}]
                  /\ transactions' = AfterWrite(t, <<BufferEntry("VERTEX", v, d)>>)
             ELSE UNCHANGED <<vertices, transactions>>
  /\ UNCHANGED <<edges, vertex_id_, edge_id_, edge_count_, fatal>>
  /\ UnchangedEngine

VertexSetProperty(t, v, property, value) ==
  /\ CanWrite(t)
  /\ v \in VertexAccessors(t)
  /\ LET error == VertexWriteError(t, v)
         d     == MkDelta(t, Len(transactions[t].deltas) + 1, "SET_PROPERTY", 0, property,
                          vertices[v].properties[property], NoLink)
     IN /\ result' = Result(t, "VertexSetProperty", error)
        /\ IF error = "OK"
             THEN /\ vertices' = [LinkVertexDelta(vertices, v, d) EXCEPT
                                    ![v].properties[property] = value]
                  /\ transactions' = AfterWrite(t, <<BufferEntry("VERTEX", v, d)>>)
             ELSE UNCHANGED <<vertices, transactions>>
  /\ UNCHANGED <<edges, vertex_id_, edge_id_, edge_count_, fatal>>
  /\ UnchangedEngine

----------------------------------------------------------------------------
(* InMemoryAccessor::CreateEdge(from, to, edge_type). *)

\* the checks without those of PrepareForWrite
CreateEdgeErrorUnprepared(t, from, to) ==
  IF vertices[from].deleted \/ vertices[to].deleted THEN "DELETED_OBJECT" ELSE "OK"

\* what CreateEdge returns for these arguments
CreateEdgeError(t, from, to) ==
  IF ~PrepareForWrite(t, vertices[from].delta) THEN "SERIALIZATION_ERROR"
  ELSE IF vertices[from].deleted THEN "DELETED_OBJECT"
  ELSE IF to # from /\ ~PrepareForWrite(t, vertices[to].delta) THEN "SERIALIZATION_ERROR"
  ELSE IF to # from /\ vertices[to].deleted THEN "DELETED_OBJECT"
  ELSE "OK"

\* CreateEdge that forgets the entry in the in_edges of the target
CreateEdgeVerticesNoInEdge(from, to, edge_type, gid, dout, din) ==
  LET v1 == LinkVertexDelta(vertices, from, dout)
      v2 == [v1 EXCEPT ![from].out_edges = @ \cup {<<edge_type, to, gid>>}]
  IN  LinkVertexDelta(v2, to, din)

\* the vertices after a successful CreateEdge: the two paired deltas and the
\* two adjacency entries
CreateEdgeVertices(from, to, edge_type, gid, dout, din) ==
  LET v1 == LinkVertexDelta(vertices, from, dout)
      v2 == [v1 EXCEPT ![from].out_edges = @ \cup {<<edge_type, to, gid>>}]
      v3 == LinkVertexDelta(v2, to, din)
  IN  [v3 EXCEPT ![to].in_edges = @ \cup {<<edge_type, from, gid>>}]

CreateEdge(t, from, to, edge_type) ==
  /\ CanWrite(t)
  /\ edge_id_ < MaxEdges
  /\ from \in VertexAccessors(t)
  /\ to \in VertexAccessors(t)
  /\ LET error == CreateEdgeError(t, from, to)
         gid   == edge_id_
         base  == Len(transactions[t].deltas)
         k     == IF properties_on_edges THEN 1 ELSE 0
         de    == MkDelta(t, base + 1, "DELETE_OBJECT", 0, 0, Null, NoLink)
         dout  == MkDelta(t, base + k + 1, "REMOVE_OUT_EDGE", 0, 0, Null, <<edge_type, to, gid>>)
         din   == MkDelta(t, base + k + 2, "REMOVE_IN_EDGE", 0, 0, Null, <<edge_type, from, gid>>)
     IN /\ result' = Result(t, "CreateEdge", error)
        /\ IF error = "OK"
             THEN /\ edge_id_' = edge_id_ + 1
                  /\ edges' = IF properties_on_edges
                                THEN edges @@ (gid :> NewEdge(<<de>>)) ELSE edges
                  /\ vertices' = CreateEdgeVertices(from, to, edge_type, gid, dout, din)
                  /\ transactions' = AfterWrite(t,
                        (IF properties_on_edges THEN <<BufferEntry("EDGE", gid, de)>> ELSE << >>)
                        \o <<BufferEntry("VERTEX", from, dout), BufferEntry("VERTEX", to, din)>>)
                  /\ edge_count_' = edge_count_ + 1
             ELSE UNCHANGED <<edge_id_, edges, vertices, transactions, edge_count_>>
  /\ UNCHANGED <<vertex_id_, fatal>>
  /\ UnchangedEngine

----------------------------------------------------------------------------
(* InMemoryAccessor::EdgeSetFrom / EdgeSetTo. *)

\* the checks both operations make, in the code's order, on the edge and on the
\* three vertices (first, second, third); link_out is looked up in the
\* out_edges of out_vertex and link_in in the in_edges of in_vertex
EdgeSetError(t, e, first, second, third, out_vertex, link_out, in_vertex, link_in) ==
  IF properties_on_edges /\ ~PrepareForWrite(t, edges[e].delta) THEN "SERIALIZATION_ERROR"
  ELSE IF properties_on_edges /\ edges[e].deleted THEN "DELETED_OBJECT"
  ELSE IF ~PrepareForWrite(t, vertices[first].delta) THEN "SERIALIZATION_ERROR"
  ELSE IF vertices[first].deleted THEN "FATAL"
  ELSE IF ~PrepareForWrite(t, vertices[second].delta) THEN "SERIALIZATION_ERROR"
  ELSE IF vertices[second].deleted THEN "FATAL"
  ELSE IF third # first /\ third # second /\ ~PrepareForWrite(t, vertices[third].delta)
    THEN "SERIALIZATION_ERROR"
  ELSE IF third # first /\ third # second /\ vertices[third].deleted THEN "FATAL"
  ELSE LET op1 == link_out \in vertices[out_vertex].out_edges
           op2 == link_in \in vertices[in_vertex].in_edges
       IN  IF properties_on_edges
             THEN IF op1 /\ op2 THEN "OK" ELSE "FATAL"
             ELSE IF op1 # op2 THEN "FATAL"
             ELSE IF ~op1 THEN "DELETED_OBJECT"
             ELSE "OK"

\* one CreateAndLinkDelta on a vertex followed by nothing: the four deltas of a
\* retargeting are linked in the order the code creates them
RECURSIVE LinkVertexDeltas(_, _)
LinkVertexDeltas(vs, bs) ==
  IF bs = << >> THEN vs
  ELSE LinkVertexDeltas(LinkVertexDelta(vs, Head(bs).gid, Head(bs).d), Tail(bs))

\* the buffer entries EdgeSetTo creates
EdgeSetToDeltas(t, ea, new_to) ==
  LET base == Len(transactions[t].deltas) IN
  << BufferEntry("VERTEX", ea.from_vertex,
       MkDelta(t, base + 1, "ADD_OUT_EDGE", 0, 0, Null, <<ea.edge_type, ea.to_vertex, ea.edge>>)),
     BufferEntry("VERTEX", ea.to_vertex,
       MkDelta(t, base + 2, "ADD_IN_EDGE", 0, 0, Null, <<ea.edge_type, ea.from_vertex, ea.edge>>)),
     BufferEntry("VERTEX", ea.from_vertex,
       MkDelta(t, base + 3, "REMOVE_OUT_EDGE", 0, 0, Null, <<ea.edge_type, new_to, ea.edge>>)),
     BufferEntry("VERTEX", new_to,
       MkDelta(t, base + 4, "REMOVE_IN_EDGE", 0, 0, Null, <<ea.edge_type, ea.from_vertex, ea.edge>>)) >>

\* EdgeSetTo that leaves the entry in the in_edges of the old target
EdgeSetToLinksKeepOld(vs, ea, new_to) ==
  LET v1 == [vs EXCEPT ![ea.from_vertex].out_edges = @ \ {<<ea.edge_type, ea.to_vertex, ea.edge>>}]
      v3 == [v1 EXCEPT ![ea.from_vertex].out_edges = @ \cup {<<ea.edge_type, new_to, ea.edge>>}]
  IN  [v3 EXCEPT ![new_to].in_edges = @ \cup {<<ea.edge_type, ea.from_vertex, ea.edge>>}]

\* the adjacency lists after EdgeSetTo
EdgeSetToLinks(vs, ea, new_to) ==
  LET v1 == [vs EXCEPT ![ea.from_vertex].out_edges = @ \ {<<ea.edge_type, ea.to_vertex, ea.edge>>}]
      v2 == [v1 EXCEPT ![ea.to_vertex].in_edges = @ \ {<<ea.edge_type, ea.from_vertex, ea.edge>>}]
      v3 == [v2 EXCEPT ![ea.from_vertex].out_edges = @ \cup {<<ea.edge_type, new_to, ea.edge>>}]
  IN  [v3 EXCEPT ![new_to].in_edges = @ \cup {<<ea.edge_type, ea.from_vertex, ea.edge>>}]

EdgeSetTo(t, ea, new_to) ==
  /\ CanWrite(t)
  /\ ea \in AllEdgeAccessors(t)
  /\ new_to \in VertexAccessors(t)
  /\ properties_on_edges => ea.edge \in DOMAIN edges
  /\ ea.to_vertex # new_to              \* same vertex: the accessor is returned as is
  /\ LET error == EdgeSetError(t, ea.edge, ea.to_vertex, new_to, ea.from_vertex,
                               ea.from_vertex, <<ea.edge_type, ea.to_vertex, ea.edge>>,
                               ea.to_vertex, <<ea.edge_type, ea.from_vertex, ea.edge>>)
         bs    == EdgeSetToDeltas(t, ea, new_to)
     IN /\ result' = Result(t, "EdgeSetTo", error)
        /\ fatal' = (error = "FATAL")
        /\ IF error = "OK"
             THEN /\ vertices' = EdgeSetToLinks(LinkVertexDeltas(vertices, bs), ea, new_to)
                  /\ transactions' = AfterWrite(t, bs)
             ELSE UNCHANGED <<vertices, transactions>>
  /\ UNCHANGED <<edges, vertex_id_, edge_id_, edge_count_>>
  /\ UnchangedEngine

\* the buffer entries EdgeSetFrom creates
EdgeSetFromDeltas(t, ea, new_from) ==
  LET base == Len(transactions[t].deltas) IN
  << BufferEntry("VERTEX", ea.from_vertex,
       MkDelta(t, base + 1, "ADD_OUT_EDGE", 0, 0, Null, <<ea.edge_type, ea.to_vertex, ea.edge>>)),
     BufferEntry("VERTEX", ea.to_vertex,
       MkDelta(t, base + 2, "ADD_IN_EDGE", 0, 0, Null, <<ea.edge_type, ea.from_vertex, ea.edge>>)),
     BufferEntry("VERTEX", new_from,
       MkDelta(t, base + 3, "REMOVE_OUT_EDGE", 0, 0, Null, <<ea.edge_type, ea.to_vertex, ea.edge>>)),
     BufferEntry("VERTEX", ea.to_vertex,
       MkDelta(t, base + 4, "REMOVE_IN_EDGE", 0, 0, Null, <<ea.edge_type, new_from, ea.edge>>)) >>

\* the adjacency lists after EdgeSetFrom
EdgeSetFromLinks(vs, ea, new_from) ==
  LET v1 == [vs EXCEPT ![ea.from_vertex].out_edges = @ \ {<<ea.edge_type, ea.to_vertex, ea.edge>>}]
      v2 == [v1 EXCEPT ![ea.to_vertex].in_edges = @ \ {<<ea.edge_type, ea.from_vertex, ea.edge>>}]
      v3 == [v2 EXCEPT ![new_from].out_edges = @ \cup {<<ea.edge_type, ea.to_vertex, ea.edge>>}]
  IN  [v3 EXCEPT ![ea.to_vertex].in_edges = @ \cup {<<ea.edge_type, new_from, ea.edge>>}]

EdgeSetFrom(t, ea, new_from) ==
  /\ CanWrite(t)
  /\ ea \in AllEdgeAccessors(t)
  /\ new_from \in VertexAccessors(t)
  /\ properties_on_edges => ea.edge \in DOMAIN edges
  /\ ea.from_vertex # new_from          \* same vertex: the accessor is returned as is
  /\ LET error == EdgeSetError(t, ea.edge, ea.from_vertex, new_from, ea.to_vertex,
                               ea.from_vertex, <<ea.edge_type, ea.to_vertex, ea.edge>>,
                               ea.to_vertex, <<ea.edge_type, ea.from_vertex, ea.edge>>)
         bs    == EdgeSetFromDeltas(t, ea, new_from)
     IN /\ result' = Result(t, "EdgeSetFrom", error)
        /\ fatal' = (error = "FATAL")
        /\ IF error = "OK"
             THEN /\ vertices' = EdgeSetFromLinks(LinkVertexDeltas(vertices, bs), ea, new_from)
                  /\ transactions' = AfterWrite(t, bs)
             ELSE UNCHANGED <<vertices, transactions>>
  /\ UNCHANGED <<edges, vertex_id_, edge_id_, edge_count_>>
  /\ UnchangedEngine

----------------------------------------------------------------------------
(* EdgeAccessor::SetProperty(property, value). *)

\* the checks without the one of PrepareForWrite
SetPropertyErrorUnprepared(t, e) ==
  IF edges[e].deleted THEN "DELETED_OBJECT" ELSE "OK"

SetPropertyError(t, e) ==
  IF ~PrepareForWrite(t, edges[e].delta) THEN "SERIALIZATION_ERROR"
  ELSE IF edges[e].deleted THEN "DELETED_OBJECT"
  ELSE "OK"

\* the edge after a successful SetProperty: the delta holds the old value (a null
\* value when the property was not set), the property is set in place
SetPropertyEdge(e, property, value, d) ==
  [LinkEdgeDelta(edges, e, d) EXCEPT ![e].properties[property] = value]

\* SetProperty never looks at properties_on_edges: without properties on edges
\* no Edge object stands behind the accessor, and edge_->lock, PrepareForWrite
\* and edge_->deleted read through a pointer that points to no Edge. The reads
\* yield any value, or the process dies (as it does when the write that follows
\* goes through that pointer).
SetPropertyWithoutEdge == {"SERIALIZATION_ERROR", "DELETED_OBJECT", "FATAL"}

SetProperty(t, ea, property, value) ==
  /\ CanWrite(t)
  /\ ea \in AllEdgeAccessors(t)
  /\ IF properties_on_edges
       THEN /\ ea.edge \in DOMAIN edges
            /\ LET e     == ea.edge
                   error == SetPropertyError(t, e)
                   d     == MkDelta(t, Len(transactions[t].deltas) + 1, "SET_PROPERTY", 0,
                                    property, edges[e].properties[property], NoLink)
               IN /\ result' = Result(t, "SetProperty", error)
                  /\ IF error = "OK"
                       THEN /\ edges' = SetPropertyEdge(e, property, value, d)
                            /\ transactions' = AfterWrite(t, <<BufferEntry("EDGE", e, d)>>)
                       ELSE UNCHANGED <<edges, transactions>>
            /\ UNCHANGED fatal
       ELSE /\ \E error \in SetPropertyWithoutEdge :
                 /\ result' = Result(t, "SetProperty", error)
                 /\ fatal' = (error = "FATAL")
            /\ UNCHANGED <<edges, transactions>>
  /\ UNCHANGED <<vertices, vertex_id_, edge_id_, edge_count_>>
  /\ UnchangedEngine

----------------------------------------------------------------------------
(* InMemoryAccessor::Abort. *)

\* the deltas at the head of a chain whose timestamp cell holds ts, newest first
RECURSIVE OwnRun(_, _, _)
OwnRun(chain, ts, i) ==
  IF i > Len(chain) \/ DeltaTs(chain[i]) # ts THEN i - 1 ELSE OwnRun(chain, ts, i + 1)

OwnDeltas(t, chain) == SubSeq(chain, 1, OwnRun(chain, transactions[t].transaction_id, 1))

\* delta.prev.Get().type is VERTEX / EDGE: the delta is the head of its object's chain
IsHead(b) ==
  /\ ObjectExists(b.kind, b.gid)
  /\ Object(b.kind, b.gid).delta # << >>
  /\ Object(b.kind, b.gid).delta[1] = b.d

\* the switch without the undoing of SET_PROPERTY
AbortVertexDeltaKeepProperty(acc, d) ==
  CASE d.action = "REMOVE_LABEL" -> [acc EXCEPT !.labels = @ \ {d.label}]
    [] d.action = "ADD_LABEL" -> [acc EXCEPT !.labels = @ \cup {d.label}]
    [] d.action = "ADD_IN_EDGE" -> [acc EXCEPT !.in_edges = @ \cup {d.link}]
    [] d.action = "ADD_OUT_EDGE" -> [acc EXCEPT !.out_edges = @ \cup {d.link}, !.count = @ + 1]
    [] d.action = "REMOVE_IN_EDGE" -> [acc EXCEPT !.in_edges = @ \ {d.link}]
    [] d.action = "REMOVE_OUT_EDGE" -> [acc EXCEPT !.out_edges = @ \ {d.link}, !.count = @ - 1]
    [] d.action = "DELETE_OBJECT" -> [acc EXCEPT !.deleted = TRUE, !.mine = TRUE]
    [] d.action = "RECREATE_OBJECT" -> [acc EXCEPT !.deleted = FALSE]
    [] OTHER -> acc

\* the switch, were the removal of an out edge to leave edge_count_ alone
AbortVertexDeltaKeepCount(acc, d) ==
  CASE d.action = "REMOVE_LABEL" ->
         [acc EXCEPT !.labels = @ \ {d.label}, !.invalid = @ \/ d.label \notin acc.labels]
    [] d.action = "ADD_LABEL" ->
         [acc EXCEPT !.labels = @ \cup {d.label}, !.invalid = @ \/ d.label \in acc.labels]
    [] d.action = "SET_PROPERTY" -> [acc EXCEPT !.properties[d.key] = d.value]
    [] d.action = "ADD_IN_EDGE" ->
         [acc EXCEPT !.in_edges = @ \cup {d.link}, !.invalid = @ \/ d.link \in acc.in_edges]
    [] d.action = "ADD_OUT_EDGE" ->
         [acc EXCEPT !.out_edges = @ \cup {d.link}, !.invalid = @ \/ d.link \in acc.out_edges,
                     !.count = @ + 1]
    [] d.action = "REMOVE_IN_EDGE" ->
         [acc EXCEPT !.in_edges = @ \ {d.link}, !.invalid = @ \/ d.link \notin acc.in_edges]
    [] d.action = "REMOVE_OUT_EDGE" ->
         [acc EXCEPT !.out_edges = @ \ {d.link}, !.invalid = @ \/ d.link \notin acc.out_edges]
    [] d.action = "DELETE_OBJECT" -> [acc EXCEPT !.deleted = TRUE, !.mine = TRUE]
    [] d.action = "RECREATE_OBJECT" -> [acc EXCEPT !.deleted = FALSE]

\* the switch of Abort on a vertex delta: undo it in place. count is the change
\* of edge_count_, mine tells that the gid goes to my_deleted_vertices, invalid
\* that an MG_ASSERT fired
AbortVertexDelta(acc, d) ==
  CASE d.action = "REMOVE_LABEL" ->
         [acc EXCEPT !.labels = @ \ {d.label}, !.invalid = @ \/ d.label \notin acc.labels]
    [] d.action = "ADD_LABEL" ->
         [acc EXCEPT !.labels = @ \cup {d.label}, !.invalid = @ \/ d.label \in acc.labels]
    [] d.action = "SET_PROPERTY" -> [acc EXCEPT !.properties[d.key] = d.value]
    [] d.action = "ADD_IN_EDGE" ->
         [acc EXCEPT !.in_edges = @ \cup {d.link}, !.invalid = @ \/ d.link \in acc.in_edges]
    [] d.action = "ADD_OUT_EDGE" ->
         [acc EXCEPT !.out_edges = @ \cup {d.link}, !.invalid = @ \/ d.link \in acc.out_edges,
                     !.count = @ + 1]
    [] d.action = "REMOVE_IN_EDGE" ->
         [acc EXCEPT !.in_edges = @ \ {d.link}, !.invalid = @ \/ d.link \notin acc.in_edges]
    [] d.action = "REMOVE_OUT_EDGE" ->
         [acc EXCEPT !.out_edges = @ \ {d.link}, !.invalid = @ \/ d.link \notin acc.out_edges,
                     !.count = @ - 1]
    [] d.action = "DELETE_OBJECT" -> [acc EXCEPT !.deleted = TRUE, !.mine = TRUE]
    [] d.action = "RECREATE_OBJECT" -> [acc EXCEPT !.deleted = FALSE]

\* the switch of Abort on an edge delta
AbortEdgeDelta(acc, d) ==
  CASE d.action = "SET_PROPERTY" -> [acc EXCEPT !.properties[d.key] = d.value]
    [] d.action = "DELETE_OBJECT" -> [acc EXCEPT !.deleted = TRUE, !.mine = TRUE]
    [] d.action = "RECREATE_OBJECT" -> [acc EXCEPT !.deleted = FALSE]
    [] OTHER -> [acc EXCEPT !.invalid = TRUE]

RECURSIVE AbortVertexDeltas(_, _)
AbortVertexDeltas(acc, ds) ==
  IF ds = << >> THEN acc ELSE AbortVertexDeltas(AbortVertexDelta(acc, Head(ds)), Tail(ds))

RECURSIVE AbortEdgeDeltas(_, _)
AbortEdgeDeltas(acc, ds) ==
  IF ds = << >> THEN acc ELSE AbortEdgeDeltas(AbortEdgeDelta(acc, Head(ds)), Tail(ds))

\* the while loop of Abort on one vertex: undo the transaction's deltas from
\* the head down, then make the first foreign delta the head
AbortVertexUnlinkOnly(t, v) ==
  LET vertex == vertices[v]
      own    == OwnDeltas(t, vertex.delta)
  IN  [vertex |-> [vertex EXCEPT !.delta = SubSeq(vertex.delta, Len(own) + 1, Len(vertex.delta))],
       count |-> 0, mine |-> FALSE, invalid |-> FALSE]

AbortVertex(t, v) ==
  LET vertex == vertices[v]
      own    == OwnDeltas(t, vertex.delta)
      acc    == AbortVertexDeltas([labels |-> vertex.labels, properties |-> vertex.properties,
                                   in_edges |-> vertex.in_edges, out_edges |-> vertex.out_edges,
                                   deleted |-> vertex.deleted, count |-> 0, mine |-> FALSE,
                                   invalid |-> FALSE], own)
  IN  [vertex |-> [labels |-> acc.labels, properties |-> acc.properties,
                   in_edges |-> acc.in_edges, out_edges |-> acc.out_edges,
                   deleted |-> acc.deleted,
                   delta |-> SubSeq(vertex.delta, Len(own) + 1, Len(vertex.delta))],
       count |-> acc.count, mine |-> acc.mine, invalid |-> acc.invalid]

AbortEdge(t, e) ==
  LET edge == edges[e]
      own  == OwnDeltas(t, edge.delta)
      acc  == AbortEdgeDeltas([properties |-> edge.properties, deleted |-> edge.deleted,
                               mine |-> FALSE, invalid |-> FALSE], own)
  IN  [edge |-> [properties |-> acc.properties, deleted |-> acc.deleted,
                 delta |-> SubSeq(edge.delta, Len(own) + 1, Len(edge.delta))],
       mine |-> acc.mine, invalid |-> acc.invalid]

\* the gids of the given kind in the order in which the loop of Abort meets them
\* (the buffer entries that are chain heads)
HeadGids(t, kind) ==
  LET heads == SelectSeq(transactions[t].deltas, LAMBDA b : b.kind = kind /\ IsHead(b))
  IN  [i \in 1..Len(heads) |-> heads[i].gid]

\* the storage after Abort() of transaction t
AbortOutcome(t) ==
  LET vs  == Range(HeadGids(t, "VERTEX"))
      es  == Range(HeadGids(t, "EDGE"))
      av  == [v \in vs |-> AbortVertex(t, v)]
      ae  == [e \in es |-> AbortEdge(t, e)]
  IN  [vertices |-> [v \in DOMAIN vertices |-> IF v \in vs THEN av[v].vertex ELSE vertices[v]],
       edges |-> [e \in DOMAIN edges |-> IF e \in es THEN ae[e].edge ELSE edges[e]],
       edge_count_ |-> edge_count_ + Sum([v \in vs |-> av[v].count], vs),
       my_deleted_vertices |-> SelectSeq(HeadGids(t, "VERTEX"), LAMBDA v : av[v].mine),
       my_deleted_edges |-> SelectSeq(HeadGids(t, "EDGE"), LAMBDA e : ae[e].mine),
       invalid |-> (\E v \in vs : av[v].invalid) \/ (\E e \in es : ae[e].invalid)]

\* CommitLog::MarkFinished(id)
MarkFinished(log, id) == log \cup {id}

\* ghost of CommitLog::MarkFinished(id): one more call made with id
CountMark(marks, id) ==
  [n \in DOMAIN marks \cup {id} |->
     IF n = id THEN (IF id \in DOMAIN marks THEN marks[id] ELSE 0) + 1 ELSE marks[n]]

\* garbage_undo_buffers.emplace_back(mark_timestamp, std::move(transaction_.deltas))
\* (the list entry names the transaction whose buffer it holds)
GarbageEntry(mark_timestamp, t) == [ts |-> mark_timestamp, tx |-> t]

Abort(t) ==
  /\ ~fatal
  /\ t \in Active
  /\ LET out == AbortOutcome(t)
     IN /\ vertices' = out.vertices
        /\ edges' = out.edges
        /\ edge_count_' = out.edge_count_
        /\ fatal' = out.invalid
        /\ garbage_undo_buffers' = Append(garbage_undo_buffers, GarbageEntry(timestamp_, t))
        /\ deleted_vertices' = out.my_deleted_vertices \o deleted_vertices
        /\ deleted_edges' = out.my_deleted_edges \o deleted_edges
  /\ commit_log' = MarkFinished(commit_log, transactions[t].start_timestamp)
  /\ marked_finished' = CountMark(marked_finished, transactions[t].start_timestamp)
  /\ transactions' = [transactions EXCEPT ![t] = Finished(@, << >>)]
  /\ result' = Result(t, "Abort", "OK")
  /\ UNCHANGED <<role, gc_full_scan_vertices_delete_, gc_full_scan_edges_delete_,
                 properties_on_edges, snapshot_wal_mode, threads, backup_directory_, storage_mode_, uuid_, snapshot_directory_, restarts, vertex_id_, edge_id_, timestamp_, transaction_id_,
                 committed_transactions, garbage_vertices, existence_constraints,
                 unique_constraints, wal_file, wal_file_, wal_seq_num_, wal_directory_, history>>

----------------------------------------------------------------------------
(* Constraints. *)

\* PropertyStore::ExtractPropertyValues(props): the values, when all are present
HasAllProperties(properties, props) == \A p \in props : properties[p] # Null
ExtractPropertyValues(properties, props) == [p \in props |-> properties[p]]

\* ExistenceConstraints::Validate(vertex): the violated constraints
ExistenceViolations(vertex) ==
  {c \in existence_constraints : c[1] \in vertex.labels /\ vertex.properties[c[2]] = Null}

\* the loop of LastCommittedVersionHasLabelProperty over the chain: undo every
\* delta until one committed before commit_timestamp, or the transaction's own
RECURSIVE LastCommittedVersion(_, _, _, _, _, _)
LastCommittedVersion(acc, chain, label, value_array, t, commit_timestamp) ==
  IF chain = << >> THEN acc
  ELSE LET d  == Head(chain)
           ts == DeltaTs(d)
       IN  IF ts < commit_timestamp \/ ts = transactions[t].transaction_id THEN acc
           ELSE LastCommittedVersion(
                  CASE d.action = "SET_PROPERTY" ->
                         IF d.key \in DOMAIN value_array
                           THEN [acc EXCEPT !.equal[d.key] = (d.value = value_array[d.key])]
                           ELSE acc
                    [] d.action = "DELETE_OBJECT" ->
                         [acc EXCEPT !.deleted = TRUE, !.invalid = @ \/ acc.deleted]
                    [] d.action = "RECREATE_OBJECT" ->
                         [acc EXCEPT !.deleted = FALSE, !.invalid = @ \/ ~acc.deleted]
                    [] d.action = "ADD_LABEL" /\ d.label = label ->
                         [acc EXCEPT !.has_label = TRUE, !.invalid = @ \/ acc.has_label]
                    [] d.action = "REMOVE_LABEL" /\ d.label = label ->
                         [acc EXCEPT !.has_label = FALSE, !.invalid = @ \/ ~acc.has_label]
                    [] OTHER -> acc,
                  Tail(chain), label, value_array, t, commit_timestamp)

LastCommittedVersionHasLabelProperty(v, label, value_array, t, commit_timestamp) ==
  LET vertex == vertices[v]
      acc == LastCommittedVersion(
               [deleted |-> vertex.deleted, has_label |-> label \in vertex.labels,
                equal |-> [p \in DOMAIN value_array |-> vertex.properties[p] = value_array[p]],
                invalid |-> FALSE],
               vertex.delta, label, value_array, t, commit_timestamp)
  IN  (\A p \in DOMAIN value_array : acc.equal[p]) /\ ~acc.deleted /\ acc.has_label

\* InMemoryUniqueConstraints::UpdateBeforeCommit(vertex, tx)
UpdateBeforeCommit(uc, v, t) ==
  [c \in DOMAIN uc |->
     IF c[1] \in vertices[v].labels /\ HasAllProperties(vertices[v].properties, c[2])
       THEN uc[c] \cup {[values |-> ExtractPropertyValues(vertices[v].properties, c[2]),
                         vertex |-> v, timestamp |-> transactions[t].start_timestamp]}
       ELSE uc[c]]

\* a validation that finds nothing
ValidateNothing(uc, v, t, commit_timestamp) == {}

\* InMemoryUniqueConstraints::Validate(vertex, tx, commit_timestamp): the
\* constraints the vertex violates
Validate(uc, v, t, commit_timestamp) ==
  IF vertices[v].deleted THEN {}
  ELSE {c \in DOMAIN uc :
          /\ c[1] \in vertices[v].labels
          /\ HasAllProperties(vertices[v].properties, c[2])
          /\ LET value_array == ExtractPropertyValues(vertices[v].properties, c[2])
             IN \E it \in uc[c] :
                  /\ it.values = value_array
                  /\ it.vertex # v
                  /\ LastCommittedVersionHasLabelProperty(it.vertex, c[1], value_array, t,
                                                          commit_timestamp)}

\* InMemoryUniqueConstraints::CreateConstraint(label, properties, vertices): the
\* entries of the new constraint
CreateConstraint(vs, label, props) ==
  {[values |-> ExtractPropertyValues(vs[v].properties, props), vertex |-> v, timestamp |-> 0] :
     v \in {w \in DOMAIN vs : /\ ~vs[w].deleted
                               /\ label \in vs[w].labels
                               /\ HasAllProperties(vs[w].properties, props)}}

----------------------------------------------------------------------------
(* InMemoryStorage::AppendToWalDataManipulation. *)

Reverse(s) == [i \in 1..Len(s) |-> s[Len(s) + 1 - i]]

RECURSIVE Flatten(_)
Flatten(ss) == IF ss = << >> THEN << >> ELSE Head(ss) \o Flatten(Tail(ss))

\* the filter of each of the five passes over the delta buffer
WalPassKind(pass) == IF pass = 3 THEN "EDGE" ELSE "VERTEX"
\* the filters of the edge-creation and the edge-deletion pass exchanged
WalPassActionsSwapped(pass) ==
  CASE pass = 1 -> {"DELETE_OBJECT", "SET_PROPERTY", "ADD_LABEL", "REMOVE_LABEL"}
    [] pass = 2 -> {"ADD_OUT_EDGE"}
    [] pass = 3 -> {"SET_PROPERTY"}
    [] pass = 4 -> {"REMOVE_OUT_EDGE"}
    [] pass = 5 -> {"RECREATE_OBJECT"}

WalPassActions(pass) ==
  CASE pass = 1 -> {"DELETE_OBJECT", "SET_PROPERTY", "ADD_LABEL", "REMOVE_LABEL"}
    [] pass = 2 -> {"REMOVE_OUT_EDGE"}
    [] pass = 3 -> {"SET_PROPERTY"}
    [] pass = 4 -> {"ADD_OUT_EDGE"}
    [] pass = 5 -> {"RECREATE_OBJECT"}

\* the record encoded for one delta: the delta's kind with the object's id, and
\* for a property the key with the value the object holds at commit
WalDelta(d, kind, gid, timestamp) ==
  [timestamp |-> timestamp, kind |-> kind, gid |-> gid, action |-> d.action,
   label |-> d.label, key |-> d.key, link |-> d.link,
   value |-> IF d.action = "SET_PROPERTY" THEN Object(kind, gid).properties[d.key] ELSE Null]

\* find_and_apply_deltas: the transaction's deltas of one object, oldest first,
\* that pass the filter
WalObjectDeltas(t, b, pass, timestamp) ==
  LET own  == Reverse(OwnDeltas(t, Object(b.kind, b.gid).delta))
      kept == SelectSeq(own, LAMBDA d : d.action \in WalPassActions(pass))
  IN  [i \in 1..Len(kept) |-> WalDelta(kept[i], b.kind, b.gid, timestamp)]

WalPass(t, pass, timestamp) ==
  LET heads == SelectSeq(transactions[t].deltas,
                         LAMBDA b : b.kind = WalPassKind(pass) /\ IsHead(b))
  IN  Flatten([i \in 1..Len(heads) |-> WalObjectDeltas(t, heads[i], pass, timestamp)])

WalTransactionEnd(timestamp) ==
  [timestamp |-> timestamp, kind |-> "TRANSACTION", gid |-> 0, action |-> "TRANSACTION_END",
   label |-> 0, key |-> 0, link |-> NoLink, value |-> Null]

\* the positions of the WAL that close a transaction's group of records
WalGroupEnds(wal) == {i \in 1..Len(wal) : wal[i].action = "TRANSACTION_END"}

\* the operation a WAL record stands for, read off the undo delta it was made
\* from: 1 vertex creation, 2 vertex property/label mutation, 3 edge creation,
\* 4 edge property, 5 edge deletion, 6 vertex deletion, 0 the end of the group
WalRecordOperation(r) ==
  CASE r.action = "TRANSACTION_END" -> 0
    [] r.kind = "VERTEX" /\ r.action = "DELETE_OBJECT" -> 1
    [] r.kind = "VERTEX" /\ r.action \in {"SET_PROPERTY", "ADD_LABEL", "REMOVE_LABEL"} -> 2
    [] r.kind = "VERTEX" /\ r.action = "REMOVE_OUT_EDGE" -> 3
    [] r.kind = "EDGE" /\ r.action = "SET_PROPERTY" -> 4
    [] r.kind = "VERTEX" /\ r.action = "ADD_OUT_EDGE" -> 5
    [] r.kind = "VERTEX" /\ r.action = "RECREATE_OBJECT" -> 6
    [] OTHER -> 7

\* InMemoryStorage::InitializeWalFile(): a WAL file is written in one mode only
InitializeWalFile == snapshot_wal_mode = "PERIODIC_SNAPSHOT_WITH_WAL"

\* the group put in front of the file
AppendToWalDataManipulationInFront(wal, t, final_commit_timestamp) ==
  <<WalTransactionEnd(final_commit_timestamp)>> \o wal

AppendToWalDataManipulation(wal, t, final_commit_timestamp) ==
  IF ~InitializeWalFile THEN wal
  ELSE wal \o Flatten([pass \in 1..5 |-> WalPass(t, pass, final_commit_timestamp)])
           \o <<WalTransactionEnd(final_commit_timestamp)>>

----------------------------------------------------------------------------
(* The WAL files. wal_file is the stream of the records of all the files of
   the WAL directory; a file of the directory holds the records of the stream
   from its first to its last. *)

\* the limit on the size of a WAL file, in records
wal_file_size_kibibytes == 2

\* the members of the storage that name its WAL files
WalFiles ==
  [wal_file_ |-> wal_file_, wal_seq_num_ |-> wal_seq_num_, wal_directory_ |-> wal_directory_]

\* wal_file_->GetSize(): the records of the open file, the last of the directory
GetSize(w) ==
  w.wal_directory_[Len(w.wal_directory_)].last - w.wal_directory_[Len(w.wal_directory_)].first + 1

\* (a storage that names every file with the same sequence number)
InitializeWalFileSameSeqNum(w, size) ==
  IF w.wal_file_ # << >> THEN w
  ELSE [w EXCEPT !.wal_file_ = <<w.wal_seq_num_>>,
                 !.wal_directory_ = Append(@, [seq_num |-> w.wal_seq_num_,
                                               first |-> size + 1, last |-> size])]

\* if (!wal_file_) wal_file_.emplace(..., wal_seq_num_++, ...): the new file
\* starts where the stream of size records ends
InitializeWalFileIn(w, size) ==
  IF w.wal_file_ # << >> THEN w
  ELSE [w EXCEPT !.wal_file_ = <<w.wal_seq_num_>>,
                 !.wal_seq_num_ = @ + 1,
                 !.wal_directory_ = Append(@, [seq_num |-> w.wal_seq_num_,
                                               first |-> size + 1, last |-> size])]

\* wal_file_->AppendDelta / AppendTransactionEnd / AppendOperation: one more
\* record in the open file
AppendDelta(w) == [w EXCEPT !.wal_directory_[Len(w.wal_directory_)].last = @ + 1]

RECURSIVE AppendDeltas(_, _)
AppendDeltas(w, n) == IF n = 0 THEN w ELSE AppendDeltas(AppendDelta(w), n - 1)

\* InMemoryStorage::FinalizeWalFile()
FinalizeWalFile(w) ==
  IF GetSize(w) >= wal_file_size_kibibytes THEN [w EXCEPT !.wal_file_ = << >>] ELSE w

\* the WAL files after AppendToWalDataManipulation / AppendToWalDataDefinition,
\* if called, appended the new records of wal_file
WalFilesAfterAppend(called) ==
  LET w == IF called /\ InitializeWalFile
             THEN FinalizeWalFile(
                    AppendDeltas(InitializeWalFileIn(WalFiles, Len(wal_file)),
                                 Len(wal_file') - Len(wal_file)))
             ELSE WalFiles
  IN  /\ wal_file_' = w.wal_file_
      /\ wal_seq_num_' = w.wal_seq_num_
      /\ wal_directory_' = w.wal_directory_

\* the WAL files the next process finds when size records are left
WalFilesFound(dir, size) ==
  LET kept == SelectSeq(dir, LAMBDA f : f.first <= size)
  IN  [i \in DOMAIN kept |-> [kept[i] EXCEPT !.last = IF @ > size THEN size ELSE @]]

\* the sequence number recovery leaves in wal_seq_num_
NextWalSeqNum(dir) == IF dir = << >> THEN 0 ELSE dir[Len(dir)].seq_num + 1

----------------------------------------------------------------------------
(* InMemoryAccessor::Commit(desired_commit_timestamp). *)

\* InMemoryStorage::CommitTimestamp(desired_commit_timestamp)
CommitTimestamp(desired) == IF desired = NoTimestamp THEN timestamp_ ELSE desired
TimestampAfterCommit(desired) ==
  IF desired = NoTimestamp THEN timestamp_ + 1 ELSE Max({timestamp_, desired + 1})

\* the first loop of Commit: a modified vertex violates an existence constraint
\* the loop finding nothing
ExistenceViolationNone(t) == {}

\* the loop of Commit over the modified vertices: the existence constraints violated
ExistenceViolation(t) ==
  UNION {ExistenceViolations(vertices[v]) : v \in Range(HeadGids(t, "VERTEX"))}

RECURSIVE UpdateAllBeforeCommit(_, _, _)
UpdateAllBeforeCommit(uc, vs, t) ==
  IF vs = << >> THEN uc
  ELSE UpdateAllBeforeCommit(UpdateBeforeCommit(uc, Head(vs), t), Tail(vs), t)

UniqueViolation(uc, t, commit_timestamp) ==
  UNION {Validate(uc, v, t, commit_timestamp) : v \in Range(HeadGids(t, "VERTEX"))}

\* ghost: the versions a commit at commit_timestamp publishes
CommittedVersions(t, commit_timestamp) ==
  {[kind |-> o.kind, gid |-> o.gid, ts |-> commit_timestamp,
    data |-> IF o.kind = "VERTEX" THEN VertexData(vertices[o.gid]) ELSE EdgeData(edges[o.gid])] :
     o \in transactions[t].before}

\* Abort() called from inside Commit, were it to leave the commit log alone
AbortInCommitUnmarked(t, mark_timestamp) ==
  LET out == AbortOutcome(t)
  IN /\ vertices' = out.vertices
     /\ edges' = out.edges
     /\ edge_count_' = out.edge_count_
     /\ fatal' = out.invalid
     /\ garbage_undo_buffers' = Append(garbage_undo_buffers, GarbageEntry(mark_timestamp, t))
     /\ deleted_vertices' = out.my_deleted_vertices \o deleted_vertices
     /\ deleted_edges' = out.my_deleted_edges \o deleted_edges
     /\ UNCHANGED <<commit_log, marked_finished>>

\* Abort() called from inside Commit, with the engine's timestamp at that moment
AbortInCommit(t, mark_timestamp) ==
  LET out == AbortOutcome(t)
  IN /\ vertices' = out.vertices
     /\ edges' = out.edges
     /\ edge_count_' = out.edge_count_
     /\ fatal' = out.invalid
     /\ garbage_undo_buffers' = Append(garbage_undo_buffers, GarbageEntry(mark_timestamp, t))
     /\ deleted_vertices' = out.my_deleted_vertices \o deleted_vertices
     /\ deleted_edges' = out.my_deleted_edges \o deleted_edges
     /\ commit_log' = MarkFinished(commit_log, transactions[t].start_timestamp)
     /\ marked_finished' = CountMark(marked_finished, transactions[t].start_timestamp)

Commit(t, desired_commit_timestamp) ==
  /\ ~fatal
  /\ t \in Active
  /\ LET tx == transactions[t]
         commit_timestamp == CommitTimestamp(desired_commit_timestamp)
         uc == UpdateAllBeforeCommit(unique_constraints, HeadGids(t, "VERTEX"), t)
         unique_constraint_violation == UniqueViolation(uc, t, commit_timestamp)
     IN IF tx.deltas = << >>
          THEN /\ commit_log' = MarkFinished(commit_log, tx.start_timestamp)
               /\ marked_finished' = CountMark(marked_finished, tx.start_timestamp)
               /\ transactions' = [transactions EXCEPT ![t] = Finished(@, << >>)]
               /\ result' = Result(t, "Commit", "OK")
               /\ UNCHANGED <<vertices, edges, edge_count_, fatal, garbage_undo_buffers,
                              deleted_vertices, deleted_edges, timestamp_, unique_constraints,
                              wal_file, wal_file_, wal_seq_num_, wal_directory_, history>>
        ELSE IF ExistenceViolation(t) # {}
          THEN /\ AbortInCommit(t, timestamp_)
               /\ transactions' = [transactions EXCEPT ![t] = Finished(@, << >>)]
               /\ result' = [Result(t, "Commit", "CONSTRAINT_VIOLATION") EXCEPT
                               !.violation = <<"EXISTENCE", ExistenceViolation(t)>>]
               /\ UNCHANGED <<timestamp_, unique_constraints, wal_file, wal_file_, wal_seq_num_, wal_directory_, history>>
        ELSE IF unique_constraint_violation # {}
          THEN /\ timestamp_' = TimestampAfterCommit(desired_commit_timestamp)
               /\ unique_constraints' = uc
               /\ AbortInCommit(t, TimestampAfterCommit(desired_commit_timestamp))
               /\ transactions' = [transactions EXCEPT
                                     ![t] = [Finished(@, << >>) EXCEPT
                                               !.commit_timestamp_ = commit_timestamp]]
               /\ result' = [Result(t, "Commit", "CONSTRAINT_VIOLATION") EXCEPT
                               !.violation = <<"UNIQUE", unique_constraint_violation>>]
               /\ UNCHANGED <<wal_file, wal_file_, wal_seq_num_, wal_directory_, history>>
        ELSE /\ timestamp_' = TimestampAfterCommit(desired_commit_timestamp)
             /\ unique_constraints' = uc
             /\ wal_file' = IF role = "MAIN" \/ desired_commit_timestamp # NoTimestamp
                              THEN AppendToWalDataManipulation(wal_file, t, commit_timestamp)
                              ELSE wal_file
             /\ WalFilesAfterAppend(role = "MAIN" \/ desired_commit_timestamp # NoTimestamp)
             /\ transactions' = [transactions EXCEPT
                                   ![t] = [Finished(@, tx.deltas) EXCEPT
                                             !.commit_timestamp = commit_timestamp,
                                             !.commit_timestamp_ = commit_timestamp]]
             /\ commit_log' = MarkFinished(commit_log, tx.start_timestamp)
             /\ marked_finished' = CountMark(marked_finished, tx.start_timestamp)
             /\ history' = history \cup CommittedVersions(t, commit_timestamp)
             /\ result' = Result(t, "Commit", "OK")
             /\ UNCHANGED <<vertices, edges, edge_count_, fatal, garbage_undo_buffers,
                            deleted_vertices, deleted_edges>>
  /\ UNCHANGED <<role, gc_full_scan_vertices_delete_, gc_full_scan_edges_delete_,
                 properties_on_edges, snapshot_wal_mode, threads, backup_directory_, storage_mode_, uuid_, snapshot_directory_, restarts, vertex_id_, edge_id_, transaction_id_,
                 committed_transactions, garbage_vertices, existence_constraints>>

----------------------------------------------------------------------------
(* ~InMemoryAccessor and FinalizeTransaction. *)

\* the destructor: Abort() when the transaction is still active, then
\* FinalizeTransaction()
DestroyAccessor(t) ==
  /\ ~fatal
  /\ t \in Started
  \* (on a terminated transaction without a commit timestamp both calls do nothing)
  /\ transactions[t].is_transaction_active_ \/ transactions[t].commit_timestamp_ # NoTimestamp
  /\ LET tx == transactions[t]
         out == AbortOutcome(t)
         log == IF tx.is_transaction_active_
                  THEN MarkFinished(commit_log, tx.start_timestamp) ELSE commit_log
         marks == IF tx.is_transaction_active_
                    THEN CountMark(marked_finished, tx.start_timestamp) ELSE marked_finished
     IN /\ IF tx.is_transaction_active_
             THEN /\ vertices' = out.vertices
                  /\ edges' = out.edges
                  /\ edge_count_' = out.edge_count_
                  /\ fatal' = out.invalid
                  /\ garbage_undo_buffers' =
                       Append(garbage_undo_buffers, GarbageEntry(timestamp_, t))
                  /\ deleted_vertices' = out.my_deleted_vertices \o deleted_vertices
                  /\ deleted_edges' = out.my_deleted_edges \o deleted_edges
             ELSE UNCHANGED <<vertices, edges, edge_count_, fatal, garbage_undo_buffers,
                             deleted_vertices, deleted_edges>>
        /\ commit_log' = IF tx.commit_timestamp_ # NoTimestamp
                           THEN MarkFinished(log, tx.commit_timestamp_) ELSE log
        /\ marked_finished' = IF tx.commit_timestamp_ # NoTimestamp
                                 THEN CountMark(marks, tx.commit_timestamp_) ELSE marks
        /\ committed_transactions' = IF tx.commit_timestamp_ # NoTimestamp
                                       THEN Append(committed_transactions, t)
                                       ELSE committed_transactions
        /\ transactions' = [transactions EXCEPT
                              ![t] = [Finished(@, IF tx.is_transaction_active_ THEN << >>
                                                  ELSE tx.deltas) EXCEPT
                                        !.commit_timestamp_ = NoTimestamp]]
  /\ result' = Result(t, "~InMemoryAccessor", "OK")
  /\ UNCHANGED <<role, gc_full_scan_vertices_delete_, gc_full_scan_edges_delete_,
                 properties_on_edges, snapshot_wal_mode, threads, backup_directory_, storage_mode_, uuid_, snapshot_directory_, restarts, vertex_id_, edge_id_, timestamp_, transaction_id_,
                 garbage_vertices, existence_constraints, unique_constraints, wal_file, wal_file_, wal_seq_num_, wal_directory_,
                 history>>

----------------------------------------------------------------------------
(* InMemoryStorage::CollectGarbage. *)

\* unlinking the deltas of transaction t from one chain: the newest of them is
\* cut off its parent (the object, or the newer delta), with all that follows
UnlinkChain(chain, t) ==
  LET idx == {i \in 1..Len(chain) : chain[i].tx = t}
  IN  IF idx = {} THEN chain ELSE SubSeq(chain, 1, Min(idx) - 1)

\* the for loop over the deltas of one committed transaction; st holds the
\* vertices, the edges and the two current_deleted lists
UnlinkTransaction(st, t) ==
  LET heads(kind) ==
        SelectSeq(transactions[t].deltas,
                  LAMBDA b : /\ b.kind = kind
                             /\ IF kind = "VERTEX"
                                  THEN /\ b.gid \in DOMAIN st.vertices
                                       /\ st.vertices[b.gid].delta # << >>
                                       /\ st.vertices[b.gid].delta[1] = b.d
                                       /\ st.vertices[b.gid].deleted
                                  ELSE /\ b.gid \in DOMAIN st.edges
                                       /\ st.edges[b.gid].delta # << >>
                                       /\ st.edges[b.gid].delta[1] = b.d
                                       /\ st.edges[b.gid].deleted)
      hv == heads("VERTEX")
      he == heads("EDGE")
  IN  [vertices |-> [v \in DOMAIN st.vertices |->
                       [st.vertices[v] EXCEPT !.delta = UnlinkChain(@, t)]],
       edges |-> [e \in DOMAIN st.edges |-> [st.edges[e] EXCEPT !.delta = UnlinkChain(@, t)]],
       current_deleted_vertices |->
         st.current_deleted_vertices \o [i \in 1..Len(hv) |-> hv[i].gid],
       current_deleted_edges |->
         st.current_deleted_edges \o [i \in 1..Len(he) |-> he[i].gid]]

RECURSIVE UnlinkTransactions(_, _)
UnlinkTransactions(st, ts) ==
  IF ts = << >> THEN st ELSE UnlinkTransactions(UnlinkTransaction(st, Head(ts)), Tail(ts))

\* (a garbage collector that unlinks every committed transaction, whoever is
\* still active)
CollectAll(i, oldest_active_start_timestamp) == Len(committed_transactions)

\* the while loop over committed_transactions_: how many transactions at the
\* front have a commit timestamp below oldest_active_start_timestamp
RECURSIVE Collectable(_, _)
Collectable(i, oldest_active_start_timestamp) ==
  IF i > Len(committed_transactions) THEN i - 1
  ELSE IF transactions[committed_transactions[i]].commit_timestamp
            >= oldest_active_start_timestamp THEN i - 1
  ELSE Collectable(i + 1, oldest_active_start_timestamp)

\* AnyVersionHasLabelProperty(vertex, label, properties, values, timestamp), on
\* the vertices vs the unlinking left
RECURSIVE AnyVersion(_, _, _, _, _)
AnyVersion(acc, chain, label, values, timestamp) ==
  IF (\A p \in DOMAIN values : acc.equal[p]) /\ ~acc.deleted /\ acc.has_label THEN TRUE
  ELSE IF chain = << >> THEN FALSE
  ELSE LET d == Head(chain) IN
       IF DeltaTs(d) < timestamp THEN FALSE
       ELSE AnyVersion(
              CASE d.action = "ADD_LABEL" /\ d.label = label -> [acc EXCEPT !.has_label = TRUE]
                [] d.action = "REMOVE_LABEL" /\ d.label = label -> [acc EXCEPT !.has_label = FALSE]
                [] d.action = "SET_PROPERTY" /\ d.key \in DOMAIN values ->
                     [acc EXCEPT !.equal[d.key] = (d.value = values[d.key])]
                [] d.action = "RECREATE_OBJECT" -> [acc EXCEPT !.deleted = FALSE]
                [] d.action = "DELETE_OBJECT" -> [acc EXCEPT !.deleted = TRUE]
                [] OTHER -> acc,
              Tail(chain), label, values, timestamp)

AnyVersionHasLabelProperty(vertex, label, values, timestamp) ==
  AnyVersion([deleted |-> vertex.deleted, has_label |-> label \in vertex.labels,
              equal |-> [p \in DOMAIN values |-> vertex.properties[p] = values[p]]],
             vertex.delta, label, values, timestamp)

\* InMemoryUniqueConstraints::RemoveObsoleteEntries(oldest_active_start_timestamp)
RemoveObsoleteEntries(uc, vs, oldest_active_start_timestamp) ==
  [c \in DOMAIN uc |->
     {it \in uc[c] :
        LET followed == \E next_it \in uc[c] : /\ next_it.vertex = it.vertex
                                               /\ next_it.values = it.values
                                               /\ next_it.timestamp > it.timestamp
            reachable == AnyVersionHasLabelProperty(vs[it.vertex], c[1], it.values,
                                                    oldest_active_start_timestamp)
        IN  it.timestamp >= oldest_active_start_timestamp \/ ~(followed \/ ~reachable)}]

\* (a garbage collector that does not wait for the readers that started
\* before the mark: every entry of the list counts)
FrontAll(list, bound, i) == Len(list)

\* how many entries at the front of a list of [ts, ...] satisfy ts < bound
RECURSIVE FrontBelow(_, _, _)
FrontBelow(list, bound, i) ==
  IF i > Len(list) \/ list[i].ts >= bound THEN i - 1 ELSE FrontBelow(list, bound, i + 1)

\* (a pass that scans for no object deleted without a delta)
FullScanNothing(need_full_scan, objects) == {}

\* the full scan of a skip-list: the objects marked deleted that have no delta
FullScan(need_full_scan, objects) ==
  IF need_full_scan
    THEN {o \in DOMAIN objects : objects[o].delta = << >> /\ objects[o].deleted}
    ELSE {}

\* CollectGarbage<force> once the while loop over committed_transactions_ has
\* ended: the index cleanup, the marking of what was unlinked, the freeing of
\* the undo buffers and of the deleted objects, and the full scans; gc holds the
\* locals of the pass
CollectGarbageTail(force, gc) ==
  LET st == gc.st
      unlinked == gc.unlinked
      mark_timestamp == timestamp_
      undo_buffers == garbage_undo_buffers \o
                        [i \in 1..Len(unlinked) |-> GarbageEntry(mark_timestamp, unlinked[i])]
      gv == garbage_vertices \o
              [i \in 1..Len(st.current_deleted_vertices) |->
                 [ts |-> mark_timestamp, gid |-> st.current_deleted_vertices[i]]]
      freed == IF force THEN Len(undo_buffers)
               ELSE FrontBelow(undo_buffers, gc.oldest_active_start_timestamp + 1, 1)
      removed == IF force THEN Len(gv)
                 ELSE FrontBelow(gv, gc.oldest_active_start_timestamp, 1)
      removed_vertices == {gv[i].gid : i \in 1..removed}
      removed_edges == Range(st.current_deleted_edges)
      scanned_vertices == FullScan(gc.need_full_scan_vertices, st.vertices)
      scanned_edges == FullScan(gc.need_full_scan_edges, st.edges)
  IN /\ transactions' = [t \in DOMAIN transactions |->
                           IF t \in Range(unlinked)
                             THEN [transactions[t] EXCEPT !.deltas = << >>]
                             ELSE transactions[t]]
     /\ unique_constraints' =
          IF gc.run_index_cleanup
            THEN RemoveObsoleteEntries(unique_constraints, st.vertices,
                                       gc.oldest_active_start_timestamp)
            ELSE unique_constraints
     /\ garbage_undo_buffers' = SubSeq(undo_buffers, freed + 1, Len(undo_buffers))
     /\ garbage_vertices' = SubSeq(gv, removed + 1, Len(gv))
     /\ vertices' = [v \in DOMAIN st.vertices \ (removed_vertices \cup scanned_vertices) |->
                       st.vertices[v]]
     /\ edges' = [e \in DOMAIN st.edges \ (removed_edges \cup scanned_edges) |-> st.edges[e]]
     /\ fatal' = (~(removed_vertices \subseteq DOMAIN st.vertices)
                   \/ ~(removed_edges \subseteq DOMAIN st.edges))
     /\ result' = Result(0, "", "OK")
     /\ UNCHANGED <<role, properties_on_edges, snapshot_wal_mode, backup_directory_, uuid_,
                    snapshot_directory_, restarts, vertex_id_, edge_id_, timestamp_,
                    transaction_id_, edge_count_, commit_log, marked_finished,
                    existence_constraints, wal_file, wal_file_, wal_seq_num_, wal_directory_, history>>

\* CollectGarbage<force>
CollectGarbagePhases(force) ==
  /\ ~fatal
  /\ LET oldest_active_start_timestamp == OldestActive
         k  == Collectable(1, oldest_active_start_timestamp)
         unlinked == SubSeq(committed_transactions, 1, k)
     IN /\ gc_full_scan_vertices_delete_' = FALSE
        /\ gc_full_scan_edges_delete_' = FALSE
        /\ deleted_vertices' = << >>
        /\ deleted_edges' = << >>
        /\ committed_transactions' =
             SubSeq(committed_transactions, k + 1, Len(committed_transactions))
        /\ CollectGarbageTail(force,
             [oldest_active_start_timestamp |-> oldest_active_start_timestamp,
              need_full_scan_vertices |-> gc_full_scan_vertices_delete_,
              need_full_scan_edges |-> gc_full_scan_edges_delete_,
              run_index_cleanup |-> \/ committed_transactions # << >>
                                    \/ garbage_undo_buffers # << >>
                                    \/ gc_full_scan_vertices_delete_
                                    \/ gc_full_scan_edges_delete_,
              unlinked |-> unlinked,
              st |-> UnlinkTransactions([vertices |-> vertices, edges |-> edges,
                                         current_deleted_vertices |-> deleted_vertices,
                                         current_deleted_edges |-> deleted_edges], unlinked)])

\* CollectGarbage<force>() as one step of the storage
CollectGarbageForce(force) == CollectGarbagePhases(force) /\ UNCHANGED threads

\* the garbage collector thread and Storage::CollectGarbage: CollectGarbage<false>
CollectGarbage == CollectGarbageForce(FALSE) /\ UNCHANGED storage_mode_

----------------------------------------------------------------------------
(* InMemoryStorage::CreateUniqueConstraint and
   InMemoryUniqueConstraints::CreateConstraint. *)

\* the most properties a unique constraint may have
kUniqueConstraintsMaxProperties == 4

\* the vertices the scan of CreateConstraint does not skip
ConstraintCandidates(vs, label, props) ==
  {w \in DOMAIN vs : /\ ~vs[w].deleted
                     /\ label \in vs[w].labels
                     /\ HasAllProperties(vs[w].properties, props)}

\* the scan finds a vertex whose values are already in the new constraint
ConstraintViolationFound(vs, label, props) ==
  \E v, w \in ConstraintCandidates(vs, label, props) :
    /\ v # w
    /\ ExtractPropertyValues(vs[v].properties, props)
         = ExtractPropertyValues(vs[w].properties, props)

\* (a creation that leaves the storage of a violated constraint in place)
KeepConstraint(uc, constraint) == uc

\* constraints_.erase(constraint)
EraseConstraint(uc, constraint) == [c \in DOMAIN uc \ {constraint} |-> uc[c]]

\* what InMemoryUniqueConstraints::CreateConstraint returns
CreationStatus(uc, vs, label, props) ==
  IF props = {} THEN "EMPTY_PROPERTIES"
  ELSE IF Cardinality(props) > kUniqueConstraintsMaxProperties
    THEN "PROPERTIES_SIZE_LIMIT_EXCEEDED"
  ELSE IF <<label, props>> \in DOMAIN uc THEN "ALREADY_EXISTS"
  ELSE IF ConstraintViolationFound(vs, label, props) THEN "CONSTRAINT_VIOLATION"
  ELSE "SUCCESS"

\* constraints_ after InMemoryUniqueConstraints::CreateConstraint: the
\* constraint is emplaced and filled by the scan, and erased again when the
\* scan found a violation
ConstraintsAfterCreate(uc, vs, label, props) ==
  LET status == CreationStatus(uc, vs, label, props)
      emplaced == (<<label, props>> :> CreateConstraint(vs, label, props)) @@ uc
  IN  IF status \in {"EMPTY_PROPERTIES", "PROPERTIES_SIZE_LIMIT_EXCEEDED", "ALREADY_EXISTS"}
        THEN uc
      ELSE IF status = "CONSTRAINT_VIOLATION" THEN EraseConstraint(emplaced, <<label, props>>)
      ELSE emplaced

\* wal_file_->AppendOperation(operation, label, properties, final_commit_timestamp)
WalOperation(operation, label, properties, timestamp) ==
  [timestamp |-> timestamp, kind |-> "OPERATION", gid |-> 0, action |-> operation,
   label |-> label, key |-> properties, link |-> NoLink, value |-> Null]

\* InMemoryStorage::AppendToWalDataDefinition
AppendToWalDataDefinition(wal, operation, label, properties, final_commit_timestamp) ==
  IF ~InitializeWalFile THEN wal
  ELSE Append(wal, WalOperation(operation, label, properties, final_commit_timestamp))

\* the accessors that hold main_lock_ shared: those of the transactions that are
\* active or not finalized
LiveAccessors ==
  {t \in Started : \/ transactions[t].is_transaction_active_
                   \/ transactions[t].commit_timestamp_ # NoTimestamp}

\* InMemoryStorage::CreateUniqueConstraint(label, properties,
\* desired_commit_timestamp), under the unique main_lock_
CreateUniqueConstraint(label, properties, desired_commit_timestamp) ==
  /\ ~fatal
  /\ LiveAccessors = {}
  /\ LET status == CreationStatus(unique_constraints, vertices, label, properties)
         commit_timestamp == CommitTimestamp(desired_commit_timestamp)
     IN /\ unique_constraints' =
             ConstraintsAfterCreate(unique_constraints, vertices, label, properties)
        /\ result' = [Result(0, "CreateUniqueConstraint", status) EXCEPT
                        !.violation = IF status = "CONSTRAINT_VIOLATION"
                                        THEN <<"UNIQUE", {<<label, properties>>}>> ELSE << >>]
        /\ IF status = "SUCCESS"
             THEN /\ timestamp_' = TimestampAfterCommit(desired_commit_timestamp)
                  /\ wal_file' = AppendToWalDataDefinition(wal_file, "UNIQUE_CONSTRAINT_CREATE",
                                                           label, properties, commit_timestamp)
                  /\ WalFilesAfterAppend(TRUE)
                  /\ commit_log' = MarkFinished(commit_log, commit_timestamp)
                  /\ marked_finished' = CountMark(marked_finished, commit_timestamp)
             ELSE UNCHANGED <<timestamp_, wal_file, wal_file_, wal_seq_num_, wal_directory_, commit_log, marked_finished>>
  /\ UNCHANGED <<role, gc_full_scan_vertices_delete_, gc_full_scan_edges_delete_,
                 properties_on_edges, snapshot_wal_mode, threads, backup_directory_, storage_mode_, uuid_, snapshot_directory_, restarts,
                 vertices, edges, vertex_id_, edge_id_, transaction_id_, edge_count_,
                 transactions, committed_transactions, garbage_undo_buffers, deleted_vertices,
                 deleted_edges, garbage_vertices, existence_constraints, fatal, history>>

----------------------------------------------------------------------------
(* Durability: the snapshot files, durability::CreateSnapshot and
   durability::RecoverData. A store is the graph a snapshot file holds or a
   recovery rebuilds: the vertices and edges by gid, without delta chains, and
   the constraints. *)

EmptyStore ==
  [vertices |-> << >>, edges |-> << >>, existence |-> {}, unique |-> {}, failed |-> FALSE]

\* the deltas the snapshot's transaction must undo: those not committed before
\* it started
RECURSIVE SnapshotReadStop(_, _, _)
SnapshotReadStop(start_timestamp, chain, i) ==
  IF i > Len(chain) THEN Len(chain)
  ELSE IF DeltaTs(chain[i]) < start_timestamp THEN i - 1
  ELSE SnapshotReadStop(start_timestamp, chain, i + 1)

SnapshotVertex(v, start_timestamp) ==
  LET vertex == vertices[v] IN
  FoldVertex([exists |-> TRUE, deleted |-> vertex.deleted, labels |-> vertex.labels,
              properties |-> vertex.properties, in_edges |-> vertex.in_edges,
              out_edges |-> vertex.out_edges],
             SubSeq(vertex.delta, 1, SnapshotReadStop(start_timestamp, vertex.delta, 1)))

SnapshotEdge(e, start_timestamp) ==
  LET edge == edges[e] IN
  FoldProperties([deleted |-> edge.deleted, properties |-> edge.properties, invalid |-> FALSE],
                 SubSeq(edge.delta, 1, SnapshotReadStop(start_timestamp, edge.delta, 1)))

\* the vertices and edges the snapshot's transaction sees, with the constraints
SnapshotStore(start_timestamp) ==
  LET vs == {v \in DOMAIN vertices : /\ SnapshotVertex(v, start_timestamp).exists
                                      /\ ~SnapshotVertex(v, start_timestamp).deleted}
      es == {e \in DOMAIN edges : /\ ~SnapshotEdge(e, start_timestamp).invalid
                                   /\ ~SnapshotEdge(e, start_timestamp).deleted}
  IN  [vertices |-> [v \in vs |->
                       LET vv == SnapshotVertex(v, start_timestamp) IN
                       [labels |-> vv.labels, properties |-> vv.properties,
                        in_edges |-> vv.in_edges, out_edges |-> vv.out_edges]],
       edges |-> [e \in es |-> [properties |-> SnapshotEdge(e, start_timestamp).properties]],
       existence |-> existence_constraints,
       unique |-> DOMAIN unique_constraints,
       failed |-> FALSE]

\* a snapshot file: the header {uuid, start timestamp}, the sections, and whether
\* its CRC still matches
SnapshotFile(uuid, start_timestamp, store) ==
  [uuid |-> uuid, start_timestamp |-> start_timestamp, corrupt |-> FALSE, store |-> store]

\* the files of dir at the positions keep, in their order
KeepFiles(dir, keep) ==
  [k \in 1..Cardinality(keep) |->
     dir[CHOOSE i \in keep : Cardinality({j \in keep : j <= i}) = k]]

\* retention keeping every snapshot of the storage's UUID
RetainAllSnapshots(dir, uuid, retention) == dir

\* retention: of the snapshots with the storage's UUID the newest `retention`
\* stay, the older ones are deleted; snapshots of another UUID are not touched
RetainSnapshots(dir, uuid, retention) ==
  LET own  == {i \in 1..Len(dir) : dir[i].uuid = uuid}
      kept == {i \in own : Cardinality({j \in own : j > i}) < retention}
  IN  KeepFiles(dir, {i \in 1..Len(dir) : i \notin own \/ i \in kept})

\* a snapshot written under a UUID that is not the storage's
WriteSnapshotForeignUuid(dir, start_timestamp) ==
  RetainSnapshots(Append(dir, SnapshotFile(0, start_timestamp, SnapshotStore(start_timestamp))),
                  uuid_, snapshot_retention_count)

\* a snapshot written without deleting any older one
WriteSnapshotKeepAll(dir, start_timestamp) ==
  Append(dir, SnapshotFile(uuid_, start_timestamp, SnapshotStore(start_timestamp)))

\* a snapshot written by a transaction that started at timestamp 0
WriteSnapshotOfStart(dir, start_timestamp) ==
  RetainSnapshots(Append(dir, SnapshotFile(uuid_, start_timestamp, SnapshotStore(0))),
                  uuid_, snapshot_retention_count)

\* durability::CreateSnapshot(transaction, snapshot_directory, ..., retention, uuid):
\* the directory after the snapshot was written and the old ones were removed
WriteSnapshot(dir, start_timestamp) ==
  RetainSnapshots(Append(dir, SnapshotFile(uuid_, start_timestamp, SnapshotStore(start_timestamp))),
                  uuid_, snapshot_retention_count)

\* without key k
Without(f, k) == [x \in DOMAIN f \ {k} |-> f[x]]

\* replaying one WAL record on a store; a record naming an object the store
\* does not hold fails the recovery
ReplayDelta(store, r) ==
  LET op == WalRecordOperation(r)
      vs == store.vertices
      es == store.edges
      fail == [store EXCEPT !.failed = TRUE]
  IN  CASE op = 0 -> store
        [] op = 1 ->
             IF r.gid \in DOMAIN vs THEN fail
             ELSE [store EXCEPT !.vertices =
                     vs @@ (r.gid :> [labels |-> {}, properties |-> NoProperties,
                                      in_edges |-> {}, out_edges |-> {}])]
        [] op = 2 ->
             IF r.gid \notin DOMAIN vs THEN fail
             ELSE IF r.action = "SET_PROPERTY"
                    THEN [store EXCEPT !.vertices[r.gid].properties[r.key] = r.value]
                  \* the delta that undoes the adding of a label stands for the adding
                  ELSE IF r.action = "REMOVE_LABEL"
                    THEN [store EXCEPT !.vertices[r.gid].labels = @ \cup {r.label}]
                  ELSE [store EXCEPT !.vertices[r.gid].labels = @ \ {r.label}]
        [] op = 3 ->
             IF r.gid \notin DOMAIN vs \/ r.link[2] \notin DOMAIN vs THEN fail
             ELSE LET out == [vs EXCEPT ![r.gid].out_edges = @ \cup {r.link}]
                      in  == [out EXCEPT ![r.link[2]].in_edges =
                                           @ \cup {<<r.link[1], r.gid, r.link[3]>>}]
                  IN  [store EXCEPT
                         !.vertices = in,
                         !.edges = IF properties_on_edges /\ r.link[3] \notin DOMAIN es
                                     THEN es @@ (r.link[3] :> [properties |-> NoProperties])
                                     ELSE es]
        [] op = 4 ->
             IF r.gid \notin DOMAIN es THEN fail
             ELSE [store EXCEPT !.edges[r.gid].properties[r.key] = r.value]
        [] op = 5 ->
             IF r.gid \notin DOMAIN vs \/ r.link[2] \notin DOMAIN vs THEN fail
             ELSE LET out == [vs EXCEPT ![r.gid].out_edges = @ \ {r.link}]
                      in  == [out EXCEPT ![r.link[2]].in_edges =
                                           @ \ {<<r.link[1], r.gid, r.link[3]>>}]
                  IN  [store EXCEPT !.vertices = in, !.edges = Without(es, r.link[3])]
        [] op = 6 ->
             IF r.gid \notin DOMAIN vs THEN fail
             ELSE [store EXCEPT !.vertices = Without(vs, r.gid)]
        [] OTHER -> fail

RECURSIVE ReplayDeltas(_, _)
ReplayDeltas(store, records) ==
  IF records = << >> \/ store.failed THEN store
  ELSE ReplayDeltas(ReplayDelta(store, Head(records)), Tail(records))

\* the records of the WAL a recovery applies on top of a snapshot taken at
\* `after`: those of the transactions whose end is in the file, newer than the
\* snapshot
RecordsToReplay(wal, after) ==
  LET last == IF WalGroupEnds(wal) = {} THEN 0 ELSE Max(WalGroupEnds(wal))
  IN  SelectSeq(SubSeq(wal, 1, last), LAMBDA r : r.timestamp > after)

\* the snapshots recovery may load: the intact ones of the newest snapshot's UUID
LoadableSnapshots(dir) ==
  {i \in 1..Len(dir) : dir[i].uuid = dir[Len(dir)].uuid /\ ~dir[i].corrupt}

\* recovery loading the oldest instead of the newest loadable snapshot
SnapshotToLoadOldest(dir) == Min(LoadableSnapshots(dir))

\* the snapshot recovery loads: the newest loadable one
SnapshotToLoad(dir) == Max(LoadableSnapshots(dir))

\* durability::RecoverData(snapshot_directory, wal_directory, &uuid, ...): nothing
\* to recover from (found = FALSE), no loadable snapshot or a failed replay
\* (fatal), or the recovered store with the ids and the timestamp to go on with
RecoverData(dir, wal) ==
  LET none     == dir = << >>
      unusable == ~none /\ LoadableSnapshots(dir) = {}
      snapshot == dir[SnapshotToLoad(dir)]
      after    == IF none THEN NoTimestamp ELSE snapshot.start_timestamp
      tail     == RecordsToReplay(wal, after)
      store    == ReplayDeltas(IF none THEN EmptyStore ELSE snapshot.store, tail)
      links    == UNION {store.vertices[v].out_edges : v \in DOMAIN store.vertices}
  IN  IF none /\ wal = << >>
        THEN [found |-> FALSE, fatal |-> FALSE, uuid |-> uuid_, store |-> EmptyStore,
              next_vertex_id |-> 0, next_edge_id |-> 0, next_timestamp |-> 0, edge_count |-> 0]
      ELSE IF unusable
        THEN [found |-> FALSE, fatal |-> TRUE, uuid |-> uuid_, store |-> EmptyStore,
              next_vertex_id |-> 0, next_edge_id |-> 0, next_timestamp |-> 0, edge_count |-> 0]
      ELSE [found |-> TRUE, fatal |-> store.failed,
            uuid |-> IF none THEN uuid_ ELSE snapshot.uuid,
            store |-> store,
            next_vertex_id |-> Max({0} \cup {v + 1 : v \in DOMAIN store.vertices}),
            next_edge_id |-> Max({0} \cup {l[3] + 1 : l \in links}),
            next_timestamp |->
              Max({after + 1} \cup {tail[i].timestamp + 1 : i \in DOMAIN tail}),
            edge_count |-> Cardinality(links)]

----------------------------------------------------------------------------
(* InMemoryStorage::CreateSnapshot, and the end of one process followed by the
   construction of the next one on the same storage directory. *)

\* std::optional<bool> is_periodic
IsPeriodic == {"nullopt", "false", "true"}

\* (a snapshot thread that is not told about the storage mode)
NeverRefused(is_periodic) == FALSE

\* the unique-lock branch of CreateSnapshot refuses a periodic snapshot in
\* analytical mode
RefusedForAnalytics(is_periodic) ==
  storage_mode_ = "IN_MEMORY_ANALYTICAL" /\ is_periodic = "true"

\* InMemoryStorage::CreateSnapshot(is_periodic); the storage mode changes under
\* the unique main_lock_ only, so that the try under the shared lock or the
\* next one under the unique lock finds the mode it waits for
CreateSnapshot(is_periodic) ==
  /\ ~fatal
  /\ timestamp_ < MaxTimestamp
  /\ IF role # "MAIN"
       THEN /\ result' = Result(0, "CreateSnapshot", "DisabledForReplica")
            /\ UNCHANGED <<timestamp_, transaction_id_, snapshot_directory_, commit_log, marked_finished>>
       ELSE IF RefusedForAnalytics(is_periodic)
       THEN /\ result' = Result(0, "CreateSnapshot", "DisabledForAnalyticsPeriodicCommit")
            /\ UNCHANGED <<timestamp_, transaction_id_, snapshot_directory_, commit_log, marked_finished>>
       ELSE /\ timestamp_' = timestamp_ + 1
            /\ transaction_id_' = transaction_id_ + 1
            /\ snapshot_directory_' = WriteSnapshot(snapshot_directory_, timestamp_)
            /\ commit_log' = MarkFinished(commit_log, timestamp_)
            /\ marked_finished' = CountMark(marked_finished, timestamp_)
            /\ result' = Result(0, "CreateSnapshot", "OK")
  /\ UNCHANGED <<role, gc_full_scan_vertices_delete_, gc_full_scan_edges_delete_,
                 properties_on_edges, snapshot_wal_mode, threads, backup_directory_, storage_mode_, uuid_, restarts, vertices,
                 edges, vertex_id_, edge_id_, edge_count_, transactions,
                 committed_transactions, garbage_undo_buffers, deleted_vertices,
                 deleted_edges, garbage_vertices, existence_constraints,
                 unique_constraints, wal_file, wal_file_, wal_seq_num_, wal_directory_, fatal, history>>

StorageModes == {"IN_MEMORY_TRANSACTIONAL", "IN_MEMORY_ANALYTICAL"}

\* Storage::SetStorageMode(storage_mode): under the unique main_lock_, i.e.
\* with no accessor alive, the mode is changed and CollectGarbage<true> runs
\* with that lock before a transaction of the new mode can start
SetStorageMode(storage_mode) ==
  /\ LiveAccessors = {}
  /\ storage_mode_ # storage_mode
  /\ storage_mode_' = storage_mode
  /\ CollectGarbageForce(TRUE)

\* utils::GenerateUUID(): a UUID no file carries
GenerateUUID ==
  Max({uuid_} \cup {snapshot_directory_[i].uuid : i \in DOMAIN snapshot_directory_}) + 1

\* ghost: the accessors of the process that ended stay listed, terminated, with
\* the number of their operations only, so that the bounds on transactions and
\* operations hold for the whole behaviour
Terminated(tx) ==
  [transaction_id |-> kTransactionInitialId, start_timestamp |-> 0,
   commit_timestamp |-> 0, deltas |-> << >>, is_transaction_active_ |-> FALSE,
   commit_timestamp_ |-> NoTimestamp, ops |-> tx.ops, before |-> {}]

\* a constructor that moves the files to the backup directory in any case
FilesMovedToBackup(recover_on_startup, files) == << >>

\* (a constructor that moves no file)
FilesKept(recover_on_startup, files) == files

\* the files the constructor leaves in a directory: without recovery the files
\* found are moved to the backup directory (durability is enabled in every
\* snapshot_wal_mode of the model)
FilesLeft(recover_on_startup, files) == IF recover_on_startup THEN files ELSE << >>

\* the files std::filesystem::rename moves from a directory to its backup
FilesToBackup(recover_on_startup, files) == IF recover_on_startup THEN << >> ELSE files

\* (a constructor that leaves the counters of a fresh storage after recovery)
ConstructKeepingCounters(recover_on_startup, dir, wal) ==
  LET info  == IF recover_on_startup THEN RecoverData(dir, wal)
               ELSE RecoverData(<< >>, << >>)
      store == info.store
  IN  /\ uuid_' = IF info.found THEN info.uuid ELSE GenerateUUID
      /\ vertices' = [v \in DOMAIN store.vertices |->
                        [NewVertex(<< >>) EXCEPT
                           !.labels = store.vertices[v].labels,
                           !.properties = store.vertices[v].properties,
                           !.in_edges = store.vertices[v].in_edges,
                           !.out_edges = store.vertices[v].out_edges]]
      /\ edges' = [e \in DOMAIN store.edges |->
                     [NewEdge(<< >>) EXCEPT !.properties = store.edges[e].properties]]
      /\ vertex_id_' = 0
      /\ edge_id_' = 0
      /\ edge_count_' = info.edge_count
      /\ timestamp_' = 0
      /\ commit_log' = {}
      /\ marked_finished' = [n \in {} |-> 0]
      /\ gc_full_scan_vertices_delete_' = FALSE
      /\ gc_full_scan_edges_delete_' = FALSE
      /\ existence_constraints' = store.existence
      /\ unique_constraints' = [c \in store.unique |-> CreateConstraint(vertices', c[1], c[2])]
      /\ fatal' = info.fatal
      /\ snapshot_directory_' = FilesLeft(recover_on_startup, dir)
      /\ wal_file' = FilesLeft(recover_on_startup,
                                SubSeq(wal, 1, Max({0} \cup WalGroupEnds(wal))))
      /\ wal_file_' = << >>
      /\ wal_directory_' = IF recover_on_startup
                             THEN WalFilesFound(wal_directory_, Len(wal_file')) ELSE << >>
      /\ wal_seq_num_' = NextWalSeqNum(wal_directory_')
      \* ghost: the commits the files hold stay committed, those of a later
      \* timestamp are lost with the process
      /\ history' = IF info.found
                       THEN {h \in history : h.ts < info.next_timestamp}
                       ELSE {}
      /\ transaction_id_' = kTransactionInitialId
      /\ transactions' = [t \in DOMAIN transactions |-> Terminated(transactions[t])]
      /\ committed_transactions' = << >>
      /\ garbage_undo_buffers' = << >>
      /\ deleted_vertices' = << >>
      /\ deleted_edges' = << >>
      /\ garbage_vertices' = << >>
      /\ role' = "MAIN"
      /\ result' = Result(0, "", "OK")
      /\ restarts' = restarts + 1
      /\ backup_directory_' =
           [snapshots |-> backup_directory_.snapshots \o FilesToBackup(recover_on_startup, dir),
            wal |-> backup_directory_.wal \o FilesToBackup(recover_on_startup, wal)]
      /\ storage_mode_' = "IN_MEMORY_TRANSACTIONAL"
      /\ UNCHANGED <<properties_on_edges, snapshot_wal_mode, threads>>

\* InMemoryStorage::InMemoryStorage(config) on the directories dir and wal
Construct(recover_on_startup, dir, wal) ==
  LET info  == IF recover_on_startup THEN RecoverData(dir, wal)
               ELSE RecoverData(<< >>, << >>)
      store == info.store
  IN  /\ uuid_' = IF info.found THEN info.uuid ELSE GenerateUUID
      /\ vertices' = [v \in DOMAIN store.vertices |->
                        [NewVertex(<< >>) EXCEPT
                           !.labels = store.vertices[v].labels,
                           !.properties = store.vertices[v].properties,
                           !.in_edges = store.vertices[v].in_edges,
                           !.out_edges = store.vertices[v].out_edges]]
      /\ edges' = [e \in DOMAIN store.edges |->
                     [NewEdge(<< >>) EXCEPT !.properties = store.edges[e].properties]]
      /\ vertex_id_' = info.next_vertex_id
      /\ edge_id_' = info.next_edge_id
      /\ edge_count_' = info.edge_count
      /\ timestamp_' = info.next_timestamp
      /\ commit_log' = 0..info.next_timestamp - 1
      /\ marked_finished' = [n \in {} |-> 0]
      /\ gc_full_scan_vertices_delete_' = FALSE
      /\ gc_full_scan_edges_delete_' = FALSE
      /\ existence_constraints' = store.existence
      /\ unique_constraints' = [c \in store.unique |-> CreateConstraint(vertices', c[1], c[2])]
      /\ fatal' = info.fatal
      /\ snapshot_directory_' = FilesLeft(recover_on_startup, dir)
      /\ wal_file' = FilesLeft(recover_on_startup,
                                SubSeq(wal, 1, Max({0} \cup WalGroupEnds(wal))))
      /\ wal_file_' = << >>
      /\ wal_directory_' = IF recover_on_startup
                             THEN WalFilesFound(wal_directory_, Len(wal_file')) ELSE << >>
      /\ wal_seq_num_' = NextWalSeqNum(wal_directory_')
      \* ghost: the commits the files hold stay committed, those of a later
      \* timestamp are lost with the process
      /\ history' = IF info.found
                       THEN {h \in history : h.ts < info.next_timestamp}
                       ELSE {}
      /\ transaction_id_' = kTransactionInitialId
      /\ transactions' = [t \in DOMAIN transactions |-> Terminated(transactions[t])]
      /\ committed_transactions' = << >>
      /\ garbage_undo_buffers' = << >>
      /\ deleted_vertices' = << >>
      /\ deleted_edges' = << >>
      /\ garbage_vertices' = << >>
      /\ role' = "MAIN"
      /\ result' = Result(0, "", "OK")
      /\ restarts' = restarts + 1
      /\ backup_directory_' =
           [snapshots |-> backup_directory_.snapshots \o FilesToBackup(recover_on_startup, dir),
            wal |-> backup_directory_.wal \o FilesToBackup(recover_on_startup, wal)]
      /\ storage_mode_' = "IN_MEMORY_TRANSACTIONAL"
      /\ UNCHANGED <<properties_on_edges, snapshot_wal_mode, threads>>

\* the files at the positions damaged lose their CRC
CorruptSnapshots(dir, damaged) ==
  [i \in DOMAIN dir |-> IF i \in damaged THEN [dir[i] EXCEPT !.corrupt = TRUE] ELSE dir[i]]

\* ~InMemoryStorage: the snapshot directory the process leaves, with a snapshot
\* taken on exit if configured (a replica takes none)
ExitDirectory(snapshot_on_exit) ==
  IF snapshot_on_exit /\ role = "MAIN"
    THEN WriteSnapshot(snapshot_directory_, timestamp_)
    ELSE snapshot_directory_

\* ~InMemoryStorage with every accessor gone, damage to some snapshot files
\* while no process runs, and the constructor of the next process
Restart(recover_on_startup, snapshot_on_exit, damaged) ==
  /\ ~fatal
  /\ restarts < MaxRestarts
  /\ Active = {}
  /\ snapshot_on_exit => timestamp_ < MaxTimestamp
  /\ recover_on_startup \/ damaged = {}
  /\ damaged \subseteq DOMAIN ExitDirectory(snapshot_on_exit)
  /\ Construct(recover_on_startup,
               CorruptSnapshots(ExitDirectory(snapshot_on_exit), damaged), wal_file)

\* the last transaction's group of records in the WAL
LastWalGroup(wal) ==
  {i \in 1..Len(wal) : \A j \in WalGroupEnds(wal) : j < i \/ j = Len(wal)}

\* the process is killed while it writes the last transaction to the WAL, or
\* the end of the file is overwritten: the last `lost` records are gone; then
\* the next process recovers
Crash(lost) ==
  /\ ~fatal
  /\ restarts < MaxRestarts
  /\ wal_file # << >>
  /\ lost \in 1..Cardinality(LastWalGroup(wal_file))
  \* no snapshot holds the transaction that was being written
  /\ \A i \in DOMAIN snapshot_directory_ :
       snapshot_directory_[i].uuid = uuid_
         => snapshot_directory_[i].start_timestamp < wal_file[Len(wal_file)].timestamp
  /\ Construct(TRUE, snapshot_directory_, SubSeq(wal_file, 1, Len(wal_file) - lost))

----------------------------------------------------------------------------
(* The store after construction, and the specifications. *)

\* the constructor after recovery: the recovered vertices carry no deltas, every
\* timestamp below the recovered one is finished in the commit log
RecoveredLinks == {<<CHOOSE edge_type \in EdgeTypeIds : TRUE, e>> : e \in 0..RecoveredEdges - 1}

RecoveredVertex(v) ==
  [NewVertex(<< >>) EXCEPT
     !.out_edges = IF v = 0 THEN {<<l[1], 1, l[2]>> : l \in RecoveredLinks} ELSE {},
     !.in_edges = IF v = 1 THEN {<<l[1], 0, l[2]>> : l \in RecoveredLinks} ELSE {}]

\* the storage after construction, recovered holding the vertices of the snapshot
InitStorage(recovered) ==
  /\ vertices = recovered
  /\ edges = IF properties_on_edges THEN [e \in 0..RecoveredEdges - 1 |-> NewEdge(<< >>)]
              ELSE << >>
  /\ vertex_id_ = RecoveredVertices
  /\ edge_id_ = RecoveredEdges
  /\ timestamp_ = RecoveredNextTimestamp
  /\ transaction_id_ = kTransactionInitialId
  /\ edge_count_ = RecoveredEdges
  /\ transactions = << >>
  /\ committed_transactions = << >>
  /\ garbage_undo_buffers = << >>
  /\ deleted_vertices = << >>
  /\ deleted_edges = << >>
  /\ garbage_vertices = << >>
  /\ commit_log = 0..RecoveredNextTimestamp - 1
  /\ marked_finished = [n \in {} |-> 0]
  /\ gc_full_scan_vertices_delete_ = FALSE
  /\ gc_full_scan_edges_delete_ = FALSE
  /\ fatal = FALSE
  /\ result = Result(0, "", "OK")
  /\ history =
       {[kind |-> "VERTEX", gid |-> v, ts |-> 0, data |-> VertexData(recovered[v])] :
          v \in DOMAIN recovered}
       \cup {[kind |-> "EDGE", gid |-> e, ts |-> 0, data |-> EdgeData(NewEdge(<< >>))] :
                e \in DOMAIN edges}

\* a snapshot of another storage, restored from a backup into the directory
UnrelatedSnapshot ==
  SnapshotFile(0, 2, [EmptyStore EXCEPT
                        !.vertices = (0 :> [labels |-> LabelIds, properties |-> NoProperties,
                                            in_edges |-> {}, out_edges |-> {}])])

\* the WAL of a storage that wrote the recovered graph in one transaction
RecoveredWal ==
  [v \in 1..RecoveredVertices |->
     [WalTransactionEnd(0) EXCEPT !.kind = "VERTEX", !.gid = v - 1, !.action = "DELETE_OBJECT"]]
  \o [e \in 1..RecoveredEdges |->
        [WalTransactionEnd(0) EXCEPT
           !.kind = "VERTEX", !.gid = 0, !.action = "REMOVE_OUT_EDGE",
           !.link = <<CHOOSE edge_type \in EdgeTypeIds : TRUE, 1, e - 1>>]]
  \o <<WalTransactionEnd(0)>>

\* the durability files the storage was recovered from: a snapshot of the
\* recovered graph (with or without an unrelated snapshot next to it), or a WAL
InitDisk(mode, from_snapshot, unrelated) ==
  /\ snapshot_wal_mode = mode
  /\ uuid_ = 1
  /\ restarts = 0
  /\ snapshot_directory_ =
       IF from_snapshot
         THEN (IF unrelated THEN <<UnrelatedSnapshot>> ELSE << >>)
              \o <<SnapshotFile(1, RecoveredNextTimestamp - 1,
                                SnapshotStore(RecoveredNextTimestamp))>>
         ELSE << >>
  /\ wal_file = IF from_snapshot THEN << >> ELSE RecoveredWal
  /\ wal_file_ = << >>
  /\ wal_directory_ = IF from_snapshot THEN << >>
                      ELSE <<[seq_num |-> 0, first |-> 1, last |-> Len(RecoveredWal)]>>
  /\ wal_seq_num_ = IF from_snapshot THEN 0 ELSE 1
  /\ backup_directory_ = [snapshots |-> << >>, wal |-> << >>]
  /\ storage_mode_ = "IN_MEMORY_TRANSACTIONAL"
  /\ threads = [th \in 1..MaxThreads |-> IdleThread]

Init ==
  /\ properties_on_edges \in BOOLEAN
  /\ InitStorage([v \in 0..RecoveredVertices - 1 |-> RecoveredVertex(v)])
  /\ role = "MAIN"
  /\ existence_constraints = {}
  /\ unique_constraints = << >>
  /\ InitDisk("PERIODIC_SNAPSHOT_WITH_WAL", TRUE, FALSE)

\* the transactions that can still write
Writers == {t \in Active : CanWrite(t)}

Next ==
  \/ CreateTransaction
  \/ \E t \in Writers : CreateVertex(t)
  \/ \E t \in Writers : \E v \in VertexAccessors(t), label \in LabelIds :
        VertexAddLabel(t, v, label)
  \/ \E t \in Writers : \E v \in VertexAccessors(t), property \in PropertyIds,
                                value \in Values \cup {Null} :
        VertexSetProperty(t, v, property, value)
  \/ \E t \in Writers : \E from, to \in VertexAccessors(t), edge_type \in EdgeTypeIds :
        CreateEdge(t, from, to, edge_type)
  \/ \E t \in Writers : \E ea \in AllEdgeAccessors(t), new_from \in VertexAccessors(t) :
        EdgeSetFrom(t, ea, new_from)
  \/ \E t \in Writers : \E ea \in AllEdgeAccessors(t), new_to \in VertexAccessors(t) :
        EdgeSetTo(t, ea, new_to)
  \/ \E t \in Writers : \E ea \in AllEdgeAccessors(t), property \in PropertyIds,
                                value \in Values \cup {Null} :
        SetProperty(t, ea, property, value)
  \/ \E t \in Active : Commit(t, NoTimestamp)
  \/ \E t \in Active : Abort(t)
  \/ \E t \in Started : DestroyAccessor(t)
  \/ CollectGarbage

Spec == Init /\ [][Next]_vars

----------------------------------------------------------------------------
(* A store with one existence and one unique constraint on the same label and
   property: vertex 0 carries the label with value 1, the others carry value 2
   without the label. *)

ConstraintLabel == CHOOSE label \in LabelIds : TRUE
ConstraintProperty == CHOOSE property \in PropertyIds : TRUE

ConstrainedVertex(v) ==
  [RecoveredVertex(v) EXCEPT
     !.labels = IF v = 0 THEN {ConstraintLabel} ELSE {},
     !.properties = [p \in PropertyIds |-> IF v = 0 THEN 1 ELSE 2]]

InitConstraints ==
  /\ properties_on_edges = TRUE
  /\ InitStorage([v \in 0..RecoveredVertices - 1 |-> ConstrainedVertex(v)])
  /\ role = "MAIN"
  /\ existence_constraints = {<<ConstraintLabel, ConstraintProperty>>}
  /\ unique_constraints =
       (<<ConstraintLabel, {ConstraintProperty}>> :>
          CreateConstraint(vertices, ConstraintLabel, {ConstraintProperty}))
  /\ InitDisk("PERIODIC_SNAPSHOT_WITH_WAL", TRUE, FALSE)

NextConstraints ==
  \/ CreateTransaction
  \/ \E t \in Writers : CreateVertex(t)
  \/ \E t \in Writers : \E v \in VertexAccessors(t), label \in LabelIds :
        VertexAddLabel(t, v, label)
  \/ \E t \in Writers : \E v \in VertexAccessors(t), property \in PropertyIds,
                                value \in Values \cup {Null} :
        VertexSetProperty(t, v, property, value)
  \/ \E t \in Writers : \E from, to \in VertexAccessors(t), edge_type \in EdgeTypeIds :
        CreateEdge(t, from, to, edge_type)
  \/ \E t \in Writers : \E ea \in AllEdgeAccessors(t), property \in PropertyIds,
                                value \in Values \cup {Null} :
        SetProperty(t, ea, property, value)
  \/ \E t \in Active : Commit(t, NoTimestamp)
  \/ \E t \in Active : Abort(t)
  \/ \E t \in Started : DestroyAccessor(t)
  \/ CollectGarbage

SpecConstraints == InitConstraints /\ [][NextConstraints]_vars

----------------------------------------------------------------------------
(* A store without constraints on which unique constraints are created between
   the transactions. *)

\* the property sets a creation is called with: none, one property, and one
\* more than the maximum
ConstraintPropertySets ==
  {{}, {ConstraintProperty}, 1..kUniqueConstraintsMaxProperties + 1}

InitUnique ==
  /\ properties_on_edges = TRUE
  /\ InitStorage([v \in 0..RecoveredVertices - 1 |-> ConstrainedVertex(v)])
  /\ role = "MAIN"
  /\ existence_constraints = {}
  /\ unique_constraints = << >>
  /\ InitDisk("PERIODIC_SNAPSHOT_WITH_WAL", TRUE, FALSE)

NextUnique ==
  \/ CreateTransaction
  \/ \E t \in Writers : \E v \in VertexAccessors(t), label \in LabelIds :
        VertexAddLabel(t, v, label)
  \/ \E t \in Writers : \E v \in VertexAccessors(t), property \in PropertyIds,
                                value \in Values \cup {Null} :
        VertexSetProperty(t, v, property, value)
  \/ \E t \in Active : Commit(t, NoTimestamp)
  \/ \E t \in Active : Abort(t)
  \/ \E t \in Started : DestroyAccessor(t)
  \/ CollectGarbage
  \/ \E label \in LabelIds, properties \in ConstraintPropertySets :
        CreateUniqueConstraint(label, properties, NoTimestamp)

SpecUnique == InitUnique /\ [][NextUnique]_vars

----------------------------------------------------------------------------
(* A replica: every transaction starts at the current timestamp_; the writes
   are those of the single replication thread, which commits each transaction
   with the commit timestamp the main instance gave it. *)

InitReplica ==
  /\ properties_on_edges = TRUE
  /\ InitStorage([v \in 0..RecoveredVertices - 1 |-> RecoveredVertex(v)])
  /\ role = "REPLICA"
  /\ existence_constraints = {}
  /\ unique_constraints = << >>
  /\ InitDisk("PERIODIC_SNAPSHOT_WITH_WAL", TRUE, FALSE)

\* the transaction through which the replication thread may write: no other
\* active transaction has written
ReplicaWriters ==
  {t \in Writers : \A u \in Active \ {t} : transactions[u].deltas = << >>}

\* the commit timestamps the main instance can send next
DesiredCommitTimestamps == {timestamp_ + 1}

NextReplica ==
  \/ CreateTransactionUpTo(MaxReplicaTx)
  \/ \E t \in ReplicaWriters : \E ea \in AllEdgeAccessors(t), property \in PropertyIds,
                                       value \in Values \cup {Null} :
        SetProperty(t, ea, property, value)
  \/ \E t \in ReplicaWriters : \E v \in VertexAccessors(t), property \in PropertyIds,
                                       value \in Values \cup {Null} :
        VertexSetProperty(t, v, property, value)
  \/ \E t \in Active : /\ transactions[t].deltas = << >>
                        /\ Commit(t, NoTimestamp)
  \/ \E t \in Active : \E desired \in DesiredCommitTimestamps :
        /\ transactions[t].deltas # << >>
        /\ Commit(t, desired)
  \/ \E t \in Active : Abort(t)
  \/ \E t \in Started : DestroyAccessor(t)
  \/ CollectGarbage

SpecReplica == InitReplica /\ [][NextReplica]_vars

----------------------------------------------------------------------------
(* The storage with its durability files: transactions, snapshots, damage to
   the files, and restarts of the process. *)

InitDurability ==
  /\ properties_on_edges = TRUE
  /\ InitStorage([v \in 0..RecoveredVertices - 1 |-> RecoveredVertex(v)])
  /\ role = "MAIN"
  /\ existence_constraints = {}
  /\ unique_constraints = << >>
  /\ \E mode \in {"PERIODIC_SNAPSHOT", "PERIODIC_SNAPSHOT_WITH_WAL"} :
       \E from_snapshot, unrelated \in BOOLEAN :
         /\ ~from_snapshot => mode = "PERIODIC_SNAPSHOT_WITH_WAL"
         /\ unrelated => (from_snapshot /\ mode = "PERIODIC_SNAPSHOT")
         /\ InitDisk(mode, from_snapshot, unrelated)

NextDurability ==
  \/ Active = {} /\ CreateTransaction
  \/ \E t \in Writers : CreateVertex(t)
  \/ \E t \in Writers : \E v \in VertexAccessors(t), property \in PropertyIds,
                                value \in Values \cup {Null} :
        VertexSetProperty(t, v, property, value)
  \/ \E t \in Writers : \E ea \in AllEdgeAccessors(t), new_to \in VertexAccessors(t) :
        EdgeSetTo(t, ea, new_to)
  \/ \E t \in Writers : \E ea \in AllEdgeAccessors(t), property \in PropertyIds,
                                value \in Values \cup {Null} :
        SetProperty(t, ea, property, value)
  \/ \E t \in Active : Commit(t, NoTimestamp)
  \/ \E recover_on_startup, snapshot_on_exit \in BOOLEAN :
        Restart(recover_on_startup, snapshot_on_exit, {})
  \/ \E lost \in 1..Len(wal_file) : Crash(lost)

SpecDurability == InitDurability /\ [][NextDurability]_vars

----------------------------------------------------------------------------
(* The storage taking snapshots, periodically and on exit, between the writes
   of transactions; snapshot files get damaged while no process runs. *)

NextSnapshots ==
  \/ Active = {} /\ CreateTransaction
  \/ \E t \in Writers : \E v \in VertexAccessors(t), property \in PropertyIds,
                                value \in Values \cup {Null} :
        VertexSetProperty(t, v, property, value)
  \/ \E t \in Active : Commit(t, NoTimestamp)
  \/ \E is_periodic \in IsPeriodic : CreateSnapshot(is_periodic)
  \/ \E recover_on_startup, snapshot_on_exit \in BOOLEAN :
        \E damaged \in SUBSET (1..Len(snapshot_directory_) + 1) :
          /\ restarts = 0
          /\ Restart(recover_on_startup, snapshot_on_exit, damaged)

SpecSnapshots == InitDurability /\ [][NextSnapshots]_vars

----------------------------------------------------------------------------
(* The storage switched between the transactional and the analytical mode,
   with snapshots requested by the periodic runner and by the user. The
   transactions run in the transactional mode. *)

NextAnalytical ==
  \/ storage_mode_ = "IN_MEMORY_TRANSACTIONAL" /\ CreateTransaction
  \/ \E t \in Writers : \E v \in VertexAccessors(t), property \in PropertyIds,
                                value \in Values \cup {Null} :
        VertexSetProperty(t, v, property, value)
  \/ \E t \in Active : Commit(t, NoTimestamp)
  \/ \E t \in Started : DestroyAccessor(t)
  \/ \E storage_mode \in StorageModes : SetStorageMode(storage_mode)
  \/ \E is_periodic \in IsPeriodic : CreateSnapshot(is_periodic)

SpecAnalytical == Init /\ [][NextAnalytical]_vars

----------------------------------------------------------------------------
(* The locks, step by step. A thread inside a call of the storage has a script:
   the locks it still takes and releases and the file writes it still starts
   and ends, in the order of the code. *)

VertexLock(gid) == <<"VERTEX", gid>>
EdgeLock(gid) == <<"EDGE", gid>>
engine_lock_ == <<"ENGINE", 0>>

\* guard.lock(), guard.unlock(), the return that destroys every guard, and the
\* start and the end of a write to a durability file
LockStep(lock) == [kind |-> "lock", lock |-> lock, file |-> ""]
UnlockStep(lock) == [kind |-> "unlock", lock |-> lock, file |-> ""]
ReturnStep == [kind |-> "return", lock |-> <<"", 0>>, file |-> ""]
WriteStep(file) == [kind |-> "write", lock |-> <<"", 0>>, file |-> file]
WrittenStep(file) == [kind |-> "written", lock |-> <<"", 0>>, file |-> file]

\* (locks taken in the order of the arguments, each vertex once)
RECURSIVE ArgumentOrder(_)
ArgumentOrder(gids) ==
  IF gids = << >> THEN << >>
  ELSE <<Head(gids)>> \o ArgumentOrder(SelectSeq(Tail(gids), LAMBDA g : g # Head(gids)))

\* std::sort by gid and std::unique: the vertices in increasing gid order, each once
RECURSIVE SortedUnique(_)
SortedUnique(gids) ==
  IF gids = << >> THEN << >>
  ELSE LET least == Min(Range(gids))
       IN  <<least>> \o SortedUnique(SelectSeq(gids, LAMBDA g : g # least))

\* (from first, then to)
CreateEdgeArgumentOrder(from, to) == IF from = to THEN <<from>> ELSE <<from, to>>

\* CreateEdge and CreateEdgeEx: guard_from and guard_to locked by gid order, one
\* lock when the vertices are the same
CreateEdgeLockOrder(from, to) ==
  IF from < to THEN <<from, to>>
  ELSE IF from > to THEN <<to, from>>
  ELSE <<from>>

CreateEdgeScript(from, to) ==
  [i \in 1..Len(CreateEdgeLockOrder(from, to)) |->
     LockStep(VertexLock(CreateEdgeLockOrder(from, to)[i]))] \o <<ReturnStep>>

\* EdgeSetFrom and EdgeSetTo on the edge accessor (edge, from, to): the edge lock
\* when edges have properties, a return when PrepareForWrite fails on the edge
\* or it is deleted, then the three vertices in gid order
EdgeSetScript(edge, gids, edge_error) ==
  (IF properties_on_edges THEN <<LockStep(EdgeLock(edge))>> ELSE << >>)
  \o (IF properties_on_edges /\ edge_error THEN << >>
      ELSE [i \in 1..Len(SortedUnique(gids)) |-> LockStep(VertexLock(SortedUnique(gids)[i]))])
  \o <<ReturnStep>>

\* CreateTransaction: the ids are drawn under the engine lock
CreateTransactionScript == <<LockStep(engine_lock_), ReturnStep>>

\* (a commit that releases the engine lock before it writes to the WAL)
CommitScriptUnlocked(written) ==
  <<LockStep(engine_lock_), UnlockStep(engine_lock_)>>
  \o (IF written THEN <<WriteStep("WAL"), WrittenStep("WAL")>> ELSE << >>)

\* Commit of a transaction with deltas: the engine lock is taken, the commit
\* timestamp drawn, the unique constraints validated, the transaction appended
\* to the WAL (unless a constraint is violated, or no WAL file is written), the
\* commit timestamp published and the engine lock released
CommitScript(written) ==
  <<LockStep(engine_lock_)>>
  \o (IF written THEN <<WriteStep("WAL"), WrittenStep("WAL")>> ELSE << >>)
  \o <<UnlockStep(engine_lock_)>>

\* (a snapshot written under the engine lock)
CreateSnapshotScriptLocked ==
  <<LockStep(engine_lock_), WriteStep("SNAPSHOT"), WrittenStep("SNAPSHOT"), ReturnStep>>

\* CreateSnapshot: snapshot_creator draws its transaction in CreateTransaction,
\* then durability::CreateSnapshot writes the file
CreateSnapshotScript ==
  CreateTransactionScript \o <<WriteStep("SNAPSHOT"), WrittenStep("SNAPSHOT")>>

\* CollectGarbage: mark_timestamp is read under the engine lock, which is
\* released once the garbage_undo_buffers_ lock is held
CollectGarbageScript == <<LockStep(engine_lock_), UnlockStep(engine_lock_)>>

UnchangedStorage ==
  UNCHANGED <<role, gc_full_scan_vertices_delete_, gc_full_scan_edges_delete_,
                 properties_on_edges, vertices, edges, vertex_id_, edge_id_, timestamp_,
              transaction_id_, edge_count_, transactions, committed_transactions,
              garbage_undo_buffers, deleted_vertices, deleted_edges, garbage_vertices,
              commit_log, marked_finished, existence_constraints, unique_constraints, wal_file, wal_file_, wal_seq_num_, wal_directory_, fatal,
              result, history, snapshot_wal_mode, uuid_, snapshot_directory_,
              restarts, backup_directory_, storage_mode_>>

\* thread th enters an operation
Call(th, op, script) ==
  /\ threads[th] = IdleThread
  /\ threads' = [threads EXCEPT ![th] = [IdleThread EXCEPT !.op = op, !.script = script]]
  /\ UnchangedStorage

LockHolders(lock) == {th \in DOMAIN threads : lock \in threads[th].held}

\* thread th takes the next step of its operation; a lock step waits until the
\* lock is free
Step(th) ==
  /\ threads[th].script # << >>
  /\ LET step == Head(threads[th].script)
         rest == Tail(threads[th].script)
         next == [threads[th] EXCEPT !.script = rest]
     IN /\ step.kind = "lock" => LockHolders(step.lock) = {}
        /\ threads' =
             [threads EXCEPT ![th] =
                LET after ==
                      CASE step.kind = "lock" -> [next EXCEPT !.held = @ \cup {step.lock}]
                        [] step.kind = "unlock" -> [next EXCEPT !.held = @ \ {step.lock}]
                        [] step.kind = "return" -> [next EXCEPT !.held = {}]
                        [] step.kind = "write" -> [next EXCEPT !.io = step.file]
                        [] OTHER -> [next EXCEPT !.io = ""]
                IN  IF rest = << >> THEN IdleThread ELSE after]
  /\ UnchangedStorage

Threads == 1..MaxThreads
LockedVertices == 0..RecoveredVertices
LockedEdges == 0..RecoveredEdges - 1

\* the threads run edge operations on three vertices and the recovered edges
NextObjectLocks ==
  \/ \E th \in Threads : \E from, to \in LockedVertices :
        Call(th, "CreateEdge", CreateEdgeScript(from, to))
  \/ \E th \in Threads : \E from, to \in LockedVertices :
        Call(th, "CreateEdgeEx", CreateEdgeScript(from, to))
  \/ \E th \in Threads : \E edge \in LockedEdges, from, to, new_from \in LockedVertices :
        \E edge_error \in BOOLEAN :
          /\ from # new_from
          /\ Call(th, "EdgeSetFrom", EdgeSetScript(edge, <<from, new_from, to>>, edge_error))
  \/ \E th \in Threads : \E edge \in LockedEdges, from, to, new_to \in LockedVertices :
        \E edge_error \in BOOLEAN :
          /\ to # new_to
          /\ Call(th, "EdgeSetTo", EdgeSetScript(edge, <<from, to, new_to>>, edge_error))
  \/ \E th \in Threads : Step(th)

SpecObjectLocks == Init /\ [][NextObjectLocks]_vars

\* the threads begin and commit transactions, take snapshots and collect garbage
NextEngineLock ==
  \/ \E th \in Threads : Call(th, "CreateTransaction", CreateTransactionScript)
  \/ \E th \in Threads : \E written \in BOOLEAN :
        Call(th, "Commit", CommitScript(written /\ InitializeWalFile))
  \/ \E th \in Threads : Call(th, "CreateSnapshot", CreateSnapshotScript)
  \/ \E th \in Threads : Call(th, "CollectGarbage", CollectGarbageScript)
  \/ \E th \in Threads : Step(th)

SpecEngineLock == Init /\ [][NextEngineLock]_vars

----------------------------------------------------------------------------
(* Properties. *)

\* the deltas of every chain, as a set of [kind, gid, d]
AllDeltas ==
  {[kind |-> "VERTEX", gid |-> v, d |-> vertices[v].delta[i]] :
     <<v, i>> \in {<<v, i>> \in (DOMAIN vertices) \X (1..4 * MaxOps) : i <= Len(vertices[v].delta)}}
  \cup
  {[kind |-> "EDGE", gid |-> e, d |-> edges[e].delta[i]] :
     <<e, i>> \in {<<e, i>> \in (DOMAIN edges) \X (1..4 * MaxOps) : i <= Len(edges[e].delta)}}

\* C4: adjacency is symmetric: (edge_type, v, e) is in the out_edges of u
\* exactly when (edge_type, u, e) is in the in_edges of v, in every state that
\* CreateEdge, EdgeSetFrom, EdgeSetTo, Commit and Abort can produce.
AdjacencySymmetric ==
  \A u \in DOMAIN vertices :
    /\ \A l \in vertices[u].out_edges :
         l[2] \in DOMAIN vertices /\ <<l[1], u, l[3]>> \in vertices[l[2]].in_edges
    /\ \A l \in vertices[u].in_edges :
         l[2] \in DOMAIN vertices /\ <<l[1], u, l[3]>> \in vertices[l[2]].out_edges

\* an edge is in place whose endpoint was changed, and a transaction has aborted
AdjacencyWitness ==
  /\ \E u \in DOMAIN vertices : vertices[u].out_edges # {}
  /\ \E b \in AllDeltas : b.d.action = "ADD_OUT_EDGE"
  /\ garbage_undo_buffers # << >>

\* C10: a successful EdgeSetTo(e, C) on the edge e from A to B, C # B, leaves
\* exactly one entry for e in the out_edges of A, pointing to C, no entry for e
\* in the in_edges of B, and the entry for e in the in_edges of C.
EdgeSetToRetargets ==
  [][\A t \in Writers : \A ea \in AllEdgeAccessors(t), new_to \in VertexAccessors(t) :
       (EdgeSetTo(t, ea, new_to) /\ result'.error = "OK") =>
         /\ {l \in vertices'[ea.from_vertex].out_edges : l[3] = ea.edge}
              = {<<ea.edge_type, new_to, ea.edge>>}
         /\ \A l \in vertices'[ea.to_vertex].in_edges : l[3] # ea.edge
         /\ <<ea.edge_type, ea.from_vertex, ea.edge>> \in vertices'[new_to].in_edges]_vars

\* some transaction holds the four deltas of an EdgeSetTo between three
\* distinct vertices
EdgeSetToWitness ==
  \E b1, b2 \in AllDeltas :
    /\ b1.d.action = "ADD_IN_EDGE" /\ b2.d.action = "REMOVE_IN_EDGE"
    /\ b1.d.tx = b2.d.tx /\ b1.d.link = b2.d.link
    /\ b1.gid # b2.gid /\ b1.d.link[2] \notin {b1.gid, b2.gid}
    /\ b2.d.link \in vertices[b2.gid].in_edges

\* the newest delta of the chain belongs to a still-active transaction other than t
ForeignHead(t, chain) ==
  /\ chain # << >>
  /\ chain[1].tx # t
  /\ chain[1].tx \in Active
  /\ DeltaTs(chain[1]) = transactions[chain[1].tx].transaction_id

\* the operation was refused with SERIALIZATION_ERROR and changed nothing
Refused ==
  /\ result'.error = "SERIALIZATION_ERROR"
  /\ UNCHANGED <<role, gc_full_scan_vertices_delete_, gc_full_scan_edges_delete_,
                 properties_on_edges, snapshot_wal_mode, threads, backup_directory_, storage_mode_, uuid_, snapshot_directory_, restarts, vertices, edges, vertex_id_, edge_id_, timestamp_,
                 transaction_id_, edge_count_, transactions, committed_transactions,
                 garbage_undo_buffers, deleted_vertices, deleted_edges, garbage_vertices,
                 commit_log, marked_finished, existence_constraints, unique_constraints, wal_file, wal_file_, wal_seq_num_, wal_directory_, fatal,
                 history>>

\* the uncommitted deltas of every chain belong to one transaction, which is active
OneUncommittedOwner ==
  \A b1, b2 \in AllDeltas :
    (b1.kind = b2.kind /\ b1.gid = b2.gid /\ IsTransactionId(DeltaTs(b1.d))
       /\ IsTransactionId(DeltaTs(b2.d)))
      => b1.d.tx = b2.d.tx /\ b1.d.tx \in Active

\* C8: a write operation of transaction t on an object whose newest delta
\* belongs to a different, still-active transaction fails with
\* SERIALIZATION_ERROR and changes nothing; at any moment the uncommitted deltas
\* on one object belong to at most one active transaction.
WriteWriteConflict ==
  [][/\ \A t \in Writers : \A v \in VertexAccessors(t) :
          ForeignHead(t, vertices[v].delta) =>
            /\ \A label \in LabelIds : VertexAddLabel(t, v, label) => Refused
            /\ \A property \in PropertyIds, value \in Values \cup {Null} :
                 VertexSetProperty(t, v, property, value) => Refused
            /\ \A w \in VertexAccessors(t), edge_type \in EdgeTypeIds :
                 /\ CreateEdge(t, v, w, edge_type) => Refused
                 /\ CreateEdge(t, w, v, edge_type) => Refused
     /\ \A t \in Writers : \A ea \in AllEdgeAccessors(t) :
          /\ (properties_on_edges /\ ForeignHead(t, edges[ea.edge].delta)) =>
               \A property \in PropertyIds, value \in Values \cup {Null} :
                 SetProperty(t, ea, property, value) => Refused
          /\ \A w \in VertexAccessors(t) :
               (\/ properties_on_edges /\ ForeignHead(t, edges[ea.edge].delta)
                \/ \E v \in {ea.from_vertex, ea.to_vertex, w} :
                     ForeignHead(t, vertices[v].delta)) =>
                 /\ EdgeSetTo(t, ea, w) => Refused
                 /\ EdgeSetFrom(t, ea, w) => Refused
     /\ OneUncommittedOwner']_vars

\* SetProperty on an edge was refused while another active transaction owns the
\* newest delta of the edge
WriteWriteConflictWitness ==
  /\ result.error = "SERIALIZATION_ERROR"
  /\ result.op = "SetProperty"
  /\ result.tx \in Active
  /\ \E e \in DOMAIN edges : ForeignHead(result.tx, edges[e].delta)

\* the buffer entries of u that record the creation of an edge from -> to
CreatedEdgeDeltas(u, from, to) ==
  {b \in Range(transactions[u].deltas) :
     /\ b.kind = "VERTEX" /\ b.gid = from
     /\ b.d.action = "REMOVE_OUT_EDGE" /\ b.d.link[2] = to}

\* the gids of the edges some adjacency list or the edge store mentions
KnownEdgeGids ==
  DOMAIN edges
  \cup UNION {{l[3] : l \in vertices[v].out_edges \cup vertices[v].in_edges} : v \in DOMAIN vertices}

\* C9, as stated: a CreateEdge between two vertices succeeds while another
\* active transaction holds its own uncommitted CreateEdge between the same two
\* vertices.
ConcurrentCreateEdgeSucceeds ==
  [][\A t \in Writers : \A from, to \in VertexAccessors(t), edge_type \in EdgeTypeIds :
       (/\ CreateEdge(t, from, to, edge_type)
        /\ \E u \in Active \ {t} : CreatedEdgeDeltas(u, from, to) # {})
         => result'.error = "OK"]_vars

\* C9, amended: a CreateEdge called while another active transaction's
\* CreateEdge between the same two vertices is uncommitted fails with
\* SERIALIZATION_ERROR and creates nothing; a CreateEdge that succeeds gives the
\* edge a Gid no other edge has and adds it to both endpoints' adjacency lists
\* next to the edges already there, and the commit of its transaction, no
\* constraint being violated, succeeds and leaves the adjacency lists as they are.
CreateEdgeBetweenSameVertices ==
  [][/\ \A t \in Writers : \A from, to \in VertexAccessors(t), edge_type \in EdgeTypeIds :
          CreateEdge(t, from, to, edge_type) =>
            /\ (\E u \in Active \ {t} : CreatedEdgeDeltas(u, from, to) # {}) => Refused
            /\ result'.error = "OK" =>
                 /\ edge_id_ \notin KnownEdgeGids
                 /\ vertices'[from].out_edges =
                      vertices[from].out_edges \cup {<<edge_type, to, edge_id_>>}
                 /\ vertices'[to].in_edges =
                      vertices[to].in_edges \cup {<<edge_type, from, edge_id_>>}
                 /\ <<edge_type, from, edge_id_>> \notin vertices[to].in_edges
     /\ \A t \in Active :
          (/\ Commit(t, NoTimestamp)
           /\ \E from, to \in DOMAIN vertices : CreatedEdgeDeltas(t, from, to) # {})
            => /\ result'.error = "OK"
               /\ ~IsTransactionId(transactions'[t].commit_timestamp)
               /\ \A v \in DOMAIN vertices :
                    /\ vertices'[v].out_edges = vertices[v].out_edges
                    /\ vertices'[v].in_edges = vertices[v].in_edges]_vars

\* two transactions, the second started after the first committed, have each
\* created and committed an edge between the same two vertices, and both edges
\* are in both adjacency lists
CreateEdgeBetweenSameVerticesWitness ==
  \E u1, u2 \in Started \ Active : \E from, to \in DOMAIN vertices :
    /\ ~IsTransactionId(transactions[u1].commit_timestamp)
    /\ ~IsTransactionId(transactions[u2].commit_timestamp)
    /\ transactions[u1].commit_timestamp < transactions[u2].start_timestamp
    /\ \E b1 \in CreatedEdgeDeltas(u1, from, to), b2 \in CreatedEdgeDeltas(u2, from, to) :
         /\ b1.d.link[3] # b2.d.link[3]
         /\ {b1.d.link, b2.d.link} \subseteq vertices[from].out_edges
         /\ {<<b1.d.link[1], from, b1.d.link[3]>>, <<b2.d.link[1], from, b2.d.link[3]>>}
              \subseteq vertices[to].in_edges

\* the versions of an object committed before transaction r started, and the
\* newest of them
VersionsBefore(r, kind, gid) ==
  {h \in history : h.kind = kind /\ h.gid = gid /\ h.ts < transactions[r].start_timestamp}

LatestBefore(r, kind, gid) ==
  CHOOSE h \in VersionsBefore(r, kind, gid) : \A g \in VersionsBefore(r, kind, gid) : g.ts <= h.ts

\* transaction r has no write of its own on the object
Untouched(r, kind, gid) ==
  \A b \in Range(transactions[r].deltas) : ~(b.kind = kind /\ b.gid = gid)

ViewsToCompare(r, kind, gid) == IF Untouched(r, kind, gid) THEN Views ELSE {"OLD"}

\* what r reads of vertex v / edge e is the state the version h was committed with
ReadsVertexVersion(r, v, view, h) ==
  /\ v \in DOMAIN vertices
  /\ LET vv == VertexView(r, v, view) IN
       /\ vv.exists
       /\ [labels |-> vv.labels, properties |-> vv.properties, in_edges |-> vv.in_edges,
           out_edges |-> vv.out_edges, deleted |-> vv.deleted] = h.data

ReadsEdgeVersion(r, e, view, h) ==
  /\ e \in DOMAIN edges
  /\ Properties(r, e, view) = [error |-> "OK", properties |-> h.data.properties]
  /\ \A property \in PropertyIds :
       GetProperty(r, e, property, view) = [error |-> "OK", value |-> h.data.properties[property]]

\* C1: a transaction started after T committed with timestamp c reads, with
\* View::OLD and View::NEW, on every object T modified the state T's writes
\* produced, as long as no later commit that it may also see replaced it: every
\* active transaction reads of every object the newest version committed before
\* its start (with View::NEW unless it wrote the object itself), whatever
\* other transactions and garbage collection did in between.
CommittedWritesAreRead ==
  \A r \in Active :
    /\ \A v \in 0..vertex_id_ - 1 :
         IF VersionsBefore(r, "VERTEX", v) = {}
           THEN ~FindVertex(r, v, "OLD")
           ELSE \A view \in ViewsToCompare(r, "VERTEX", v) :
                  ReadsVertexVersion(r, v, view, LatestBefore(r, "VERTEX", v))
    /\ \A e \in 0..edge_id_ - 1 :
         (properties_on_edges /\ VersionsBefore(r, "EDGE", e) # {}) =>
           \A view \in ViewsToCompare(r, "EDGE", e) :
             ReadsEdgeVersion(r, e, view, LatestBefore(r, "EDGE", e))

\* a transaction is active that started after a commit which set an edge
\* property and after the garbage collector emptied the chain of that edge
CommittedWritesAreReadWitness ==
  \E r \in Active : \E e \in DOMAIN edges :
    /\ VersionsBefore(r, "EDGE", e) # {}
    /\ LatestBefore(r, "EDGE", e).ts > 0
    /\ \E property \in PropertyIds : LatestBefore(r, "EDGE", e).data.properties[property] # Null
    /\ edges[e].delta = << >>
    /\ garbage_undo_buffers = << >>

\* the step terminates transaction t without committing it
Aborts(t) ==
  /\ t \in Active
  /\ ~transactions'[t].is_transaction_active_
  /\ IsTransactionId(transactions'[t].commit_timestamp)

\* the deltas of every chain after the step
AllDeltasAfter == AllDeltas'

\* C2: when a transaction is aborted (Abort(), destruction of its accessor
\* while active, or the abort inside Commit), every vertex and edge it modified
\* has the labels, properties, adjacency lists and deleted flag it had before
\* the transaction's first write on it, the objects it created are marked
\* deleted, and none of its deltas is left on a chain for a later reader to
\* meet.
AbortUndoesWrites ==
  [][\A t \in Active :
       Aborts(t) =>
         /\ \A o \in transactions[t].before :
              IF o.kind = "VERTEX"
                THEN /\ o.gid \in DOMAIN vertices'
                     /\ IF o.created THEN vertices'[o.gid].deleted
                        ELSE VertexData(vertices'[o.gid]) = o.data
                ELSE /\ o.gid \in DOMAIN edges'
                     /\ IF o.created THEN edges'[o.gid].deleted
                        ELSE EdgeData(edges'[o.gid]) = o.data
         /\ \A b \in AllDeltasAfter : b.d.tx # t
         /\ history' = history]_vars

\* Commit has just aborted the only transaction opened so far, which had
\* created a vertex, and the vertex is marked deleted
AbortUndoesWritesWitness ==
  /\ result.op = "Commit"
  /\ result.error = "CONSTRAINT_VIOLATION"
  /\ Started = {result.tx}
  /\ \E v \in DOMAIN vertices : v >= RecoveredVertices /\ vertices[v].deleted
  /\ garbage_undo_buffers # << >>

\* the committed state of vertex v: the vertex with the uncommitted deltas at
\* the head of its chain undone
RECURSIVE UncommittedRun(_, _)
UncommittedRun(chain, i) ==
  IF i > Len(chain) \/ ~IsTransactionId(DeltaTs(chain[i])) THEN i - 1
  ELSE UncommittedRun(chain, i + 1)

CommittedVertex(v) ==
  LET vertex == vertices[v] IN
  FoldVertex([exists |-> TRUE, deleted |-> vertex.deleted, labels |-> vertex.labels,
              properties |-> vertex.properties, in_edges |-> vertex.in_edges,
              out_edges |-> vertex.out_edges],
             SubSeq(vertex.delta, 1, UncommittedRun(vertex.delta, 1)))

LiveCommittedVertices ==
  {v \in DOMAIN vertices : CommittedVertex(v).exists /\ ~CommittedVertex(v).deleted}

\* C5: while the unique constraint (L, P) exists, the committed state never
\* contains two non-deleted vertices with label L and the same values for
\* the properties P.
UniqueConstraintHolds ==
  \A c \in DOMAIN unique_constraints : \A v, w \in LiveCommittedVertices :
    (/\ v # w
     /\ c[1] \in CommittedVertex(v).labels /\ c[1] \in CommittedVertex(w).labels
     /\ HasAllProperties(CommittedVertex(v).properties, c[2]))
      => ExtractPropertyValues(CommittedVertex(v).properties, c[2])
           # ExtractPropertyValues(CommittedVertex(w).properties, c[2])

\* two transactions have committed writes on the label or the property of the
\* constraint, and two vertices carry the label with different values
UniqueConstraintHoldsWitness ==
  /\ \E v, w \in LiveCommittedVertices :
       /\ v # w
       /\ ConstraintLabel \in CommittedVertex(v).labels
       /\ ConstraintLabel \in CommittedVertex(w).labels
       /\ CommittedVertex(v).properties[ConstraintProperty] # Null
       /\ CommittedVertex(w).properties[ConstraintProperty] # Null
  /\ \E u1, u2 \in Started \ Active :
       /\ u1 # u2
       /\ ~IsTransactionId(transactions[u1].commit_timestamp)
       /\ ~IsTransactionId(transactions[u2].commit_timestamp)
       /\ transactions[u1].deltas # << >> /\ transactions[u2].deltas # << >>

\* C6: a Commit that detects a unique-constraint violation returns
\* ConstraintViolation(UNIQUE, label, properties) for an existing constraint and
\* has aborted the transaction: every object it modified is as before its first
\* write, none of its deltas is left on a chain, nothing is appended to the
\* WAL, and the timestamp its deltas point to stays its transaction id, then
\* and ever after.
UniqueViolationAborts ==
  [][/\ \A t \in Active :
          (/\ Commit(t, NoTimestamp)
           /\ transactions[t].deltas # << >>
           /\ ExistenceViolation(t) = {}
           /\ UniqueViolation(UpdateAllBeforeCommit(unique_constraints,
                                                    HeadGids(t, "VERTEX"), t),
                              t, CommitTimestamp(NoTimestamp)) # {})
            => /\ result'.error = "CONSTRAINT_VIOLATION"
               /\ result'.violation[1] = "UNIQUE"
               /\ result'.violation[2] # {}
               /\ result'.violation[2] \subseteq DOMAIN unique_constraints
               /\ Aborts(t)
               /\ \A o \in transactions[t].before :
                    IF o.kind = "VERTEX"
                      THEN IF o.created THEN vertices'[o.gid].deleted
                           ELSE VertexData(vertices'[o.gid]) = o.data
                      ELSE IF o.created THEN edges'[o.gid].deleted
                           ELSE EdgeData(edges'[o.gid]) = o.data
               /\ \A b \in AllDeltasAfter : b.d.tx # t
               /\ wal_file' = wal_file
     /\ \A t \in Started \ Active :
          IsTransactionId(transactions[t].commit_timestamp) =>
            transactions'[t].commit_timestamp = transactions[t].commit_timestamp]_vars

\* Commit has just returned a unique-constraint violation for a transaction
\* that ran next to one that committed and wrote the WAL
UniqueViolationAbortsWitness ==
  /\ result.op = "Commit"
  /\ result.error = "CONSTRAINT_VIOLATION"
  /\ result.violation[1] = "UNIQUE"
  /\ wal_file # << >>

\* the committed state satisfies every existence constraint
ExistenceConstraintHolds ==
  \A c \in existence_constraints : \A v \in LiveCommittedVertices :
    c[1] \in CommittedVertex(v).labels => CommittedVertex(v).properties[c[2]] # Null

\* C7: while the existence constraint (L, P) exists, Commit of a transaction
\* that modified a vertex which carries label L and lacks property P returns a
\* constraint-violation error and aborts the transaction, and no commit leaves
\* such a vertex in the committed state.
ExistenceViolationAborts ==
  [][/\ \A t \in Active :
          (/\ Commit(t, NoTimestamp)
           /\ \E o \in transactions[t].before : \E c \in existence_constraints :
                /\ o.kind = "VERTEX"
                /\ c[1] \in vertices[o.gid].labels
                /\ vertices[o.gid].properties[c[2]] = Null)
            => /\ result'.error = "CONSTRAINT_VIOLATION"
               /\ result'.violation[1] = "EXISTENCE"
               /\ Aborts(t)
               /\ wal_file' = wal_file
               /\ history' = history
     /\ ExistenceConstraintHolds']_vars

\* Commit has just returned an existence-constraint violation for a
\* transaction that had removed the property of the labelled vertex, and the
\* vertex has its property again
ExistenceViolationAbortsWitness ==
  /\ result.op = "Commit"
  /\ result.error = "CONSTRAINT_VIOLATION"
  /\ result.violation[1] = "EXISTENCE"
  /\ \E b \in Range(garbage_undo_buffers) : b.tx = result.tx
  /\ vertices[0].properties[ConstraintProperty] # Null
  /\ \E u \in Started : u # result.tx

\* the active transactions that have written nothing, before and after the step
ReadOnly == {r \in Active : transactions[r].deltas = << >>}
ReadOnlyAfter == {r \in DOMAIN transactions' :
                    /\ transactions'[r].is_transaction_active_
                    /\ transactions'[r].deltas = << >>}

\* what transaction r reads with View::OLD, after the step
PropertiesAfter(r, e) == Properties(r, e, "OLD")'
VertexViewAfter(r, v) == VertexView(r, v, "OLD")'

\* C3: two read-only transactions with the same start timestamp read the same
\* object with View::OLD and obtain the same result, the one reading before
\* and the other after any step of another transaction or of the garbage
\* collector.
SameStartSameView ==
  [][\A r1 \in ReadOnly \cap ReadOnlyAfter : \A r2 \in (ReadOnly \cap ReadOnlyAfter) \ {r1} :
       transactions[r1].start_timestamp = transactions[r2].start_timestamp =>
         /\ \A e \in DOMAIN edges :
              e \in DOMAIN edges' /\ Properties(r1, e, "OLD") = PropertiesAfter(r2, e)
         /\ \A v \in DOMAIN vertices :
              v \in DOMAIN vertices' /\ VertexView(r1, v, "OLD") = VertexViewAfter(r2, v)]_vars

\* what transaction t reads of edge e after the step
GetPropertyAfter(t, e, property, view) == GetProperty(t, e, property, view)'
ReadPropertiesAfter(t, e, view) == Properties(t, e, view)'

\* C11: in a transaction with uncommitted writes on an edge (one that existed
\* when the transaction started), a read with View::NEW returns the value of
\* the transaction's latest own write and a read with View::OLD the value as
\* of the transaction's start: right after each successful SetProperty, and
\* for the other properties it wrote earlier, as long as it stays active.
OwnWritesByView ==
  [][\A t \in Active : \A e \in DOMAIN edges :
       (/\ transactions'[t].is_transaction_active_
        /\ e \in DOMAIN edges'
        /\ VersionsBefore(t, "EDGE", e) # {}
        /\ ~Untouched(t, "EDGE", e) \/ ~Untouched(t, "EDGE", e)')
         => LET at_start == LatestBefore(t, "EDGE", e).data.properties IN
            /\ \A property \in PropertyIds :
                 /\ GetPropertyAfter(t, e, property, "OLD")
                      = [error |-> "OK", value |-> at_start[property]]
                 /\ GetPropertyAfter(t, e, property, "NEW")
                      = [error |-> "OK", value |-> edges'[e].properties[property]]
                 /\ \A ea \in AllEdgeAccessors(t), value \in Values \cup {Null} :
                      (ea.edge = e /\ SetProperty(t, ea, property, value)
                         /\ result'.error = "OK")
                        => GetPropertyAfter(t, e, property, "NEW")
                             = [error |-> "OK", value |-> value]
            /\ ReadPropertiesAfter(t, e, "OLD") = [error |-> "OK", properties |-> at_start]
            /\ ReadPropertiesAfter(t, e, "NEW")
                 = [error |-> "OK", properties |-> edges'[e].properties]]_vars

\* a transaction has written a property of an edge twice, the edge having had
\* another value when it started, so that both views differ
OwnWritesByViewWitness ==
  \E t \in Active : \E e \in DOMAIN edges : \E property \in PropertyIds :
    /\ VersionsBefore(t, "EDGE", e) # {}
    /\ Len(SelectSeq(transactions[t].deltas,
                     LAMBDA b : b.kind = "EDGE" /\ b.gid = e /\ b.d.action = "SET_PROPERTY")) = 2
    /\ GetProperty(t, e, property, "NEW").value # GetProperty(t, e, property, "OLD").value
    /\ GetProperty(t, e, property, "NEW").value # Null

\* records i < j of the WAL belong to the same transaction's group
SameWalGroup(wal, i, j) == \A k \in i..j - 1 : k \notin WalGroupEnds(wal)

WalOrdered(wal) ==
  /\ wal # << >> => Len(wal) \in WalGroupEnds(wal)
  /\ \A i, j \in 1..Len(wal) :
       i < j => IF SameWalGroup(wal, i, j) THEN wal[i].timestamp = wal[j].timestamp
                ELSE wal[i].timestamp < wal[j].timestamp

\* C12: the records of the WAL file appear in commit order: the commit
\* timestamps are equal within one transaction's group of records and strictly
\* greater from one group to the next, and every Commit appends its group, with
\* its commit timestamp, behind the groups of the Commits serialised before it,
\* whatever the order in which the transactions started.
WalInCommitOrder ==
  [][/\ Len(wal_file') >= Len(wal_file)
     /\ SubSeq(wal_file', 1, Len(wal_file)) = wal_file
     /\ WalOrdered(wal_file')
     /\ \A t \in Active :
          (Commit(t, NoTimestamp) /\ result'.error = "OK" /\ transactions[t].deltas # << >>)
            => /\ Len(wal_file') > Len(wal_file)
               /\ \A i \in Len(wal_file) + 1..Len(wal_file') :
                    wal_file'[i].timestamp = transactions'[t].commit_timestamp]_vars

\* the WAL holds the groups of two transactions, the first group being that of
\* the transaction that started later
WalInCommitOrderWitness ==
  \E t1, t2 \in Started \ Active :
    /\ transactions[t1].start_timestamp > transactions[t2].start_timestamp
    /\ transactions[t1].commit_timestamp < transactions[t2].commit_timestamp
    /\ \E i, j \in 1..Len(wal_file) :
         /\ i < j
         /\ wal_file[i].timestamp = transactions[t1].commit_timestamp
         /\ wal_file[j].timestamp = transactions[t2].commit_timestamp
         /\ wal_file[i].action # "TRANSACTION_END"
         /\ wal_file[j].action # "TRANSACTION_END"

\* vertex creations and vertex property/label mutations taken as one class
WalRecordStage(r) == IF WalRecordOperation(r) = 1 THEN 2 ELSE WalRecordOperation(r)

\* the pairs of records of one group, the earlier one first
WalGroupPairs(wal) ==
  {p \in (1..Len(wal)) \X (1..Len(wal)) :
     /\ p[1] < p[2]
     /\ SameWalGroup(wal, p[1], p[2])
     /\ wal[p[2]].action # "TRANSACTION_END"}

CurrentStore ==
  [vertices |-> [v \in DOMAIN vertices |->
                   [labels |-> vertices[v].labels, properties |-> vertices[v].properties,
                    in_edges |-> vertices[v].in_edges, out_edges |-> vertices[v].out_edges]],
   edges |-> [e \in DOMAIN edges |-> [properties |-> edges[e].properties]],
   existence |-> existence_constraints,
   unique |-> DOMAIN unique_constraints,
   failed |-> FALSE]

CurrentStoreAfter == CurrentStore'

\* the versions committed at or before timestamp ts, and the newest of an object
CommittedUpTo(ts, kind, gid) == {h \in history : h.kind = kind /\ h.gid = gid /\ h.ts <= ts}
NewestUpTo(ts, kind, gid) ==
  CHOOSE h \in CommittedUpTo(ts, kind, gid) : \A g \in CommittedUpTo(ts, kind, gid) : g.ts <= h.ts

\* the committed state as of timestamp ts: of every object the newest version
\* committed up to ts
CommittedStore(ts) ==
  LET known(kind) == {h.gid : h \in {g \in history : g.kind = kind /\ g.ts <= ts}}
      vs == {v \in known("VERTEX") : ~NewestUpTo(ts, "VERTEX", v).data.deleted}
      es == {e \in known("EDGE") : ~NewestUpTo(ts, "EDGE", e).data.deleted}
  IN  [vertices |-> [v \in vs |->
                       LET d == NewestUpTo(ts, "VERTEX", v).data IN
                       [labels |-> d.labels, properties |-> d.properties,
                        in_edges |-> d.in_edges, out_edges |-> d.out_edges]],
       edges |-> [e \in es |-> [properties |-> NewestUpTo(ts, "EDGE", e).data.properties]],
       existence |-> existence_constraints,
       unique |-> DOMAIN unique_constraints,
       failed |-> FALSE]

\* what the process leaves on disk covers every commit: it writes a WAL, or it
\* takes a snapshot on exit
Durable(snapshot_on_exit) ==
  snapshot_on_exit \/ snapshot_wal_mode = "PERIODIC_SNAPSHOT_WITH_WAL"

\* C14: round trip: shutting the storage down after committed transactions and
\* restarting it with recover_on_startup yields the vertices, edges, labels,
\* properties and constraints of the committed state before the shutdown,
\* whether the process left a snapshot on exit, a WAL, or a snapshot followed by
\* a WAL tail.
RoundTrip ==
  [][\A snapshot_on_exit \in BOOLEAN :
       (Restart(TRUE, snapshot_on_exit, {}) /\ Durable(snapshot_on_exit))
         => (~fatal' /\ CurrentStoreAfter = CommittedStore(timestamp_))]_vars

\* the round trip of a WAL that holds no edge-deletion record
RoundTripNoRetarget ==
  [][\A snapshot_on_exit \in BOOLEAN :
       (/\ Restart(TRUE, snapshot_on_exit, {}) /\ Durable(snapshot_on_exit)
        /\ \A i \in DOMAIN wal_file : wal_file[i].action # "ADD_OUT_EDGE")
         => (~fatal' /\ CurrentStoreAfter = CommittedStore(timestamp_))]_vars

\* what a recovering constructor builds in memory
RecoveredState ==
  <<CurrentStore, vertex_id_, edge_id_, edge_count_, timestamp_, fatal>>

RecoveredStateAfter == RecoveredState'

\* the process was constructed and has started no transaction since
JustRecovered ==
  /\ restarts >= 1
  /\ transaction_id_ = kTransactionInitialId

\* there are files to recover from
FilesFound == snapshot_directory_ # << >> \/ wal_file # << >>

LastWalTimestamp == wal_file[Len(wal_file)].timestamp

\* C16: when the newest WAL ends in a truncated or overwritten transaction,
\* recovery succeeds and the recovered state is that of exactly the transactions
\* whose TRANSACTION_END is intact: the committed state before the transaction
\* of the damaged tail.
TruncatedTailDiscarded ==
  [][\A lost \in 1..Len(wal_file) :
       Crash(lost) => (~fatal' /\ CurrentStoreAfter = CommittedStore(LastWalTimestamp - 1))]_vars

\* the same for a WAL whose intact part holds no edge-deletion record
TruncatedTailDiscardedNoRetarget ==
  [][\A lost \in 1..Len(wal_file) :
       (/\ Crash(lost)
        /\ \A i \in 1..Len(wal_file) - Cardinality(LastWalGroup(wal_file)) :
             wal_file[i].action # "ADD_OUT_EDGE")
         => (~fatal' /\ CurrentStoreAfter = CommittedStore(LastWalTimestamp - 1))]_vars

\* the snapshots of the storage's UUID in a directory, and those of them that
\* are not damaged
OwnSnapshots(dir) == {i \in DOMAIN dir : dir[i].uuid = uuid_}
IntactSnapshots(dir, damaged) == {i \in OwnSnapshots(dir) : i \notin damaged /\ ~dir[i].corrupt}

\* the newest snapshots of the storage are damaged and an older one is intact
NewestDamaged(dir, damaged) ==
  /\ OwnSnapshots(dir) # {}
  /\ Max(OwnSnapshots(dir)) \in damaged
  /\ IntactSnapshots(dir, damaged) # {}

\* the timestamp at which the newest intact snapshot was taken
FallbackTimestamp(dir, damaged) == dir[Max(IntactSnapshots(dir, damaged))].start_timestamp

\* C18 as stated: when the k newest snapshots are corrupt and an older one is
\* intact, recovery succeeds and the store holds exactly the data present when
\* that snapshot was taken.
SnapshotFallbackExact ==
  [][\A snapshot_on_exit \in BOOLEAN :
       \A damaged \in SUBSET (1..Len(snapshot_directory_) + 1) :
         (/\ Restart(TRUE, snapshot_on_exit, damaged)
          /\ NewestDamaged(ExitDirectory(snapshot_on_exit), damaged))
           => /\ ~fatal'
              /\ CurrentStoreAfter =
                   CommittedStore(FallbackTimestamp(ExitDirectory(snapshot_on_exit), damaged))]_vars

\* C18: when the k newest snapshots are corrupt and an older one is intact,
\* recovery succeeds from that snapshot, and when the WAL holds no transaction
\* newer than that snapshot, the store holds exactly the data present when it
\* was taken.
SnapshotFallback ==
  [][\A snapshot_on_exit \in BOOLEAN :
       \A damaged \in SUBSET (1..Len(snapshot_directory_) + 1) :
         (/\ Restart(TRUE, snapshot_on_exit, damaged)
          /\ NewestDamaged(ExitDirectory(snapshot_on_exit), damaged))
           => /\ ~fatal'
              /\ (\A i \in DOMAIN wal_file :
                    wal_file[i].timestamp
                      <= FallbackTimestamp(ExitDirectory(snapshot_on_exit), damaged))
                   => CurrentStoreAfter =
                        CommittedStore(FallbackTimestamp(ExitDirectory(snapshot_on_exit), damaged))]_vars

\* a storage just recovered from an intact snapshot that is older than a
\* damaged one with other data, holding the data of the intact one
SnapshotFallbackWitness ==
  /\ restarts = 1 /\ ~fatal /\ transaction_id_ = kTransactionInitialId
  /\ \E i, j \in DOMAIN snapshot_directory_ :
       /\ i < j /\ j = Len(snapshot_directory_)
       /\ snapshot_directory_[i].uuid = uuid_ /\ snapshot_directory_[j].uuid = uuid_
       /\ ~snapshot_directory_[i].corrupt /\ snapshot_directory_[j].corrupt
       /\ snapshot_directory_[i].store # snapshot_directory_[j].store
       /\ CurrentStore = snapshot_directory_[i].store

\* the snapshot files with the storage's UUID, those with another UUID, and the
\* last n files of a sequence
OwnFiles(dir) == SelectSeq(dir, LAMBDA f : f.uuid = uuid_)
OtherFiles(dir) == SelectSeq(dir, LAMBDA f : f.uuid # uuid_)
LastFiles(files, n) == SubSeq(files, Len(files) - n + 1, Len(files))

\* C20: with snapshot_retention_count = N the snapshot directory never holds
\* more than N snapshots with the storage's UUID; every snapshot creation
\* leaves the newest min(n + 1, N) of them, the one just written included
\* (so exactly N once N were created), and leaves the snapshots with another
\* UUID as they were.
SnapshotRetention ==
  /\ [](Len(OwnFiles(snapshot_directory_)) <= snapshot_retention_count)
  /\ [][((\E is_periodic \in IsPeriodic : CreateSnapshot(is_periodic)) /\ role = "MAIN") =>
          LET before  == OwnFiles(snapshot_directory_)
              written == snapshot_directory_'[Len(snapshot_directory_')]
          IN  /\ written.uuid = uuid_ /\ written.start_timestamp = timestamp_
              /\ OwnFiles(snapshot_directory_') =
                   LastFiles(Append(before, written),
                             Min({Len(before) + 1, snapshot_retention_count}))
              /\ OtherFiles(snapshot_directory_') = OtherFiles(snapshot_directory_)]_vars

\* more snapshots than the retention count were created: the one the storage
\* started from is deleted, N newer ones are kept, next to a snapshot with
\* another UUID
SnapshotRetentionWitness ==
  /\ restarts = 0
  /\ Len(OwnFiles(snapshot_directory_)) = snapshot_retention_count
  /\ \A i \in DOMAIN snapshot_directory_ :
       snapshot_directory_[i].uuid = uuid_ => snapshot_directory_[i].start_timestamp > 0
  /\ OtherFiles(snapshot_directory_) # << >>

\* C19: when every snapshot with the UUID of the storage is damaged, a restart
\* with recover_on_startup ends fatally, also when an intact snapshot with
\* another UUID is in the directory; that snapshot is not loaded.
AllOwnSnapshotsCorrupt ==
  [][\A snapshot_on_exit \in BOOLEAN :
       \A damaged \in SUBSET (1..Len(snapshot_directory_) + 1) :
         LET dir == ExitDirectory(snapshot_on_exit) IN
         (/\ Restart(TRUE, snapshot_on_exit, damaged)
          /\ OwnSnapshots(dir) # {}
          /\ IntactSnapshots(dir, damaged) = {})
           => /\ fatal'
              /\ \A i \in DOMAIN dir :
                   dir[i].uuid # uuid_ => CurrentStoreAfter.vertices # dir[i].store.vertices]_vars

\* a recovery that ended fatally with every snapshot of the newest UUID
\* damaged, next to an intact snapshot with another UUID
AllOwnSnapshotsCorruptWitness ==
  /\ fatal /\ restarts = 1
  /\ snapshot_directory_ # << >>
  /\ \A i \in DOMAIN snapshot_directory_ :
       snapshot_directory_[i].uuid = snapshot_directory_[Len(snapshot_directory_)].uuid
         => snapshot_directory_[i].corrupt
  /\ \E i \in DOMAIN snapshot_directory_ :
       /\ snapshot_directory_[i].uuid # snapshot_directory_[Len(snapshot_directory_)].uuid
       /\ ~snapshot_directory_[i].corrupt
  /\ Len(snapshot_directory_) >= 3

\* C23: without properties on edges, SetProperty on an edge returns
\* PROPERTIES_DISABLED, creates no delta and leaves the edge without properties.
SetPropertyDisabled ==
  [][\A t \in Started : \A ea \in AllEdgeAccessors(t), property \in PropertyIds,
                           value \in Values \cup {Null} :
       (~properties_on_edges /\ SetProperty(t, ea, property, value))
         => /\ result'.error = "PROPERTIES_DISABLED"
            /\ ~fatal'
            /\ transactions'[t].deltas = transactions[t].deltas
            /\ edges' = edges]_vars

\* C28: the list of committed transactions is sorted by commit timestamp: a
\* transaction appended to it has a commit timestamp greater than that of every
\* transaction already in the list.
CommittedTransactionsSorted ==
  \A i, j \in DOMAIN committed_transactions :
    i < j => transactions[committed_transactions[i]].commit_timestamp
               < transactions[committed_transactions[j]].commit_timestamp

\* the vertices and edges a step removes from the skip lists
RemovedVertices == DOMAIN vertices \ DOMAIN vertices'
RemovedEdges == DOMAIN edges \ DOMAIN edges'

\* the mark timestamps a vertex is queued with in garbage_vertices_
VertexMarks(v) == {garbage_vertices[i].ts : i \in {j \in DOMAIN garbage_vertices :
                                                     garbage_vertices[j].gid = v}}

\* the links and the edge deltas that still lead to edge e after a step
LinksTo(e) ==
  {v \in DOMAIN vertices' :
     \/ \E l \in vertices'[v].in_edges \cup vertices'[v].out_edges : l[3] = e
     \/ \E i \in DOMAIN vertices'[v].delta :
          /\ vertices'[v].delta[i].action \in
               {"ADD_IN_EDGE", "ADD_OUT_EDGE", "REMOVE_IN_EDGE", "REMOVE_OUT_EDGE"}
          /\ vertices'[v].delta[i].link[3] = e}

\* C29 as stated: CollectGarbage removes a deleted vertex or edge only when the
\* mark timestamp it was queued with is below the oldest active start
\* timestamp; an edge taken from the deleted list in a run has at best the mark
\* timestamp of that run.
MarkedBeforeRemoved ==
  [][CollectGarbage =>
       /\ \A v \in RemovedVertices : \E ts \in VertexMarks(v) : ts < OldestActive
       /\ \A e \in RemovedEdges : timestamp_ < OldestActive]_vars

\* C29, amended: CollectGarbage removes a deleted vertex only when the mark
\* timestamp it was queued with is below the oldest active start timestamp; a
\* deleted edge has no mark timestamp and is removed by the run that takes it
\* from the deleted list, when it is deleted, has no deltas and no vertex nor
\* vertex delta leads to it.
DeletedObjectsRemoved ==
  [][CollectGarbage =>
       /\ \A v \in RemovedVertices :
            /\ vertices[v].deleted
            /\ \E ts \in VertexMarks(v) : ts < OldestActive
       /\ \A e \in RemovedEdges :
            /\ edges[e].deleted
            /\ \A i \in DOMAIN edges[e].delta :
                 transactions[edges[e].delta[i].tx].commit_timestamp < OldestActive
            /\ LinksTo(e) = {}]_vars

\* garbage collections have removed a vertex and an edge
DeletedObjectsRemovedWitness ==
  /\ properties_on_edges
  /\ \E v \in 0..vertex_id_ - 1 : v \notin DOMAIN vertices
  /\ \E e \in 0..edge_id_ - 1 : e \notin DOMAIN edges

\* the transactions a step takes off committed_transactions_
Unlinked == Range(committed_transactions) \ Range(committed_transactions')

\* the mark timestamps of the undo buffers a garbage collection frees: those of
\* the buffers that were queued, or that it queues with its own mark timestamp,
\* and are not queued after it
FreedMarks ==
  {b.ts : b \in {c \in Range(garbage_undo_buffers)
                         \cup {GarbageEntry(timestamp_, t) : t \in Unlinked} :
                   \A i \in DOMAIN garbage_undo_buffers' :
                     garbage_undo_buffers'[i].tx # c.tx}}

\* the deltas linked in the chains of the vertices and the edges
ChainDeltas ==
  UNION ({Range(vertices[v].delta) : v \in DOMAIN vertices}
           \cup {Range(edges[e].delta) : e \in DOMAIN edges})

\* no chain leads to a delta of a transaction that no longer owns its buffer
NoFreedDeltaReachable == \A d \in ChainDeltas : transactions[d.tx].deltas # << >>

\* C30 as stated: CollectGarbage unlinks the deltas of a committed transaction
\* only when its commit timestamp is below the oldest active start timestamp,
\* and frees an undo buffer only when its mark timestamp is below the oldest
\* active start timestamp.
FreedOlderThanOldestActive ==
  [][CollectGarbage =>
       /\ \A t \in Unlinked : transactions[t].commit_timestamp < OldestActive
       /\ \A ts \in FreedMarks : ts < OldestActive]_vars

\* C30, amended: CollectGarbage unlinks the deltas of a committed transaction
\* only when its commit timestamp is below the oldest active start timestamp,
\* and frees an undo buffer only when its mark timestamp is not above the oldest
\* active start timestamp; no chain ever leads to a delta whose buffer was
\* unlinked or freed.
UnlinkedAndFreedSafely ==
  /\ []NoFreedDeltaReachable
  /\ [][CollectGarbage =>
          /\ \A t \in Unlinked : transactions[t].commit_timestamp < OldestActive
          /\ \A ts \in FreedMarks : ts <= OldestActive]_vars

\* a committed transaction that wrote deltas has been unlinked and its buffer
\* freed, next to a committed transaction that still waits for a reader
UnlinkedAndFreedSafelyWitness ==
  /\ \E t \in Started :
       /\ transactions[t].commit_timestamp < kTransactionInitialId
       /\ \E h \in history : h.ts = transactions[t].commit_timestamp
       /\ transactions[t].deltas = << >>
       /\ \A i \in DOMAIN garbage_undo_buffers : garbage_undo_buffers[i].tx # t
  /\ ChainDeltas # {}

\* C24: a unique-constraint creation that is rejected (no property, too many
\* properties, the constraint exists, or two vertices with the label share the
\* values) leaves the registered unique constraints as they were; the constraint
\* is registered, and validated by the commits that follow, only when the
\* creation returns SUCCESS.
RejectedCreationRegistersNothing ==
  [][\A label \in LabelIds, properties \in ConstraintPropertySets :
       CreateUniqueConstraint(label, properties, NoTimestamp)
         => IF result'.error = "SUCCESS"
              THEN DOMAIN unique_constraints'
                     = DOMAIN unique_constraints \cup {<<label, properties>>}
              ELSE /\ result'.error \in {"EMPTY_PROPERTIES", "PROPERTIES_SIZE_LIMIT_EXCEEDED",
                                         "ALREADY_EXISTS", "CONSTRAINT_VIOLATION"}
                   /\ unique_constraints' = unique_constraints]_vars

\* a creation has just been rejected because two vertices share the values,
\* and no constraint is registered
RejectedCreationRegistersNothingWitness ==
  /\ result.op = "CreateUniqueConstraint"
  /\ result.error = "CONSTRAINT_VIOLATION"
  /\ DOMAIN unique_constraints = {}

\* C22: a storage started without recovery, with durability enabled, moves
\* every file it finds in the snapshot and the WAL directory to the backup
\* directory before it writes a durability file: afterwards the live
\* directories hold none of the old files, and no new one yet, and the backup
\* directories hold all of them.
OldFilesMovedToBackup ==
  [][\A snapshot_on_exit \in BOOLEAN :
       Restart(FALSE, snapshot_on_exit, {})
         => /\ snapshot_wal_mode # "DISABLED" \/ snapshot_on_exit
            /\ snapshot_directory_' = << >>
            /\ wal_file' = << >>
            /\ \A f \in Range(ExitDirectory(snapshot_on_exit)) :
                 f \in Range(backup_directory_'.snapshots)
            /\ \A r \in Range(wal_file) : r \in Range(backup_directory_'.wal)
            /\ \A f \in Range(backup_directory_.snapshots) :
                 f \in Range(backup_directory_'.snapshots)]_vars

\* a storage has started without recovery on directories that held snapshots
\* and WAL records, which are now in the backup directory
OldFilesMovedToBackupWitness ==
  /\ restarts >= 1
  /\ snapshot_directory_ = << >>
  /\ wal_file = << >>
  /\ Len(backup_directory_.snapshots) >= 2
  /\ backup_directory_.wal # << >>
  /\ vertices = << >>

\* C25: CreateSnapshot called as a periodic snapshot on a main storage in the
\* analytical mode returns DisabledForAnalyticsPeriodicCommit and writes no
\* snapshot file.
PeriodicSnapshotRefused ==
  [][(/\ storage_mode_ = "IN_MEMORY_ANALYTICAL"
      /\ role = "MAIN"
      /\ CreateSnapshot("true"))
       => /\ result'.error = "DisabledForAnalyticsPeriodicCommit"
          /\ snapshot_directory_' = snapshot_directory_
          /\ timestamp_' = timestamp_]_vars

\* a periodic snapshot has just been refused on a storage in the analytical
\* mode that holds committed writes
PeriodicSnapshotRefusedWitness ==
  /\ result.op = "CreateSnapshot"
  /\ result.error = "DisabledForAnalyticsPeriodicCommit"
  /\ storage_mode_ = "IN_MEMORY_ANALYTICAL"
  /\ wal_file # << >>

\* the threads that wait for a lock another thread holds
Waiting(th) ==
  /\ threads[th].script # << >>
  /\ Head(threads[th].script).kind = "lock"
  /\ LockHolders(Head(threads[th].script).lock) # {}

\* C26: CreateEdge, CreateEdgeEx, EdgeSetFrom and EdgeSetTo lock the vertices
\* they touch in ascending gid order, each vertex once, so that no set of
\* threads running them is ever such that each waits for a lock another one of
\* the set holds.
NoObjectLockDeadlock ==
  /\ \A th \in Threads :
       \A i, j \in DOMAIN threads[th].script :
         LET a == threads[th].script[i]
             b == threads[th].script[j]
         IN  (/\ i < j
              /\ a.kind = "lock" /\ b.kind = "lock"
              /\ a.lock[1] = "VERTEX" /\ b.lock[1] = "VERTEX") => a.lock[2] < b.lock[2]
  /\ \A th \in Threads :
       \A step \in Range(threads[th].script) :
         step.kind = "lock" /\ step.lock[1] = "VERTEX"
           => \A l \in threads[th].held : l[1] = "VERTEX" => l[2] < step.lock[2]
  /\ \A waiters \in SUBSET Threads \ {{}} :
       \E th \in waiters :
         ~Waiting(th) \/ LockHolders(Head(threads[th].script).lock) \cap waiters = {}

\* a thread that holds a vertex lock waits for the lock of a higher vertex,
\* held by a thread that changes an edge, holds its lock and has a vertex to
\* lock yet
NoObjectLockDeadlockWitness ==
  \E th, other \in Threads :
    /\ Waiting(th)
    /\ threads[th].held # {}
    /\ Head(threads[th].script).lock \in threads[other].held
    /\ \E l \in threads[other].held : l[1] = "EDGE"
    /\ Head(threads[other].script).kind = "lock"

\* the threads that hold the engine lock while they write to a file
WritingUnderEngineLock ==
  {th \in Threads : engine_lock_ \in threads[th].held /\ threads[th].io # ""}

----------------------------------------------------------------------------
(* The commit log and the ends of a transaction. *)

\* the number of MarkFinished calls made with the start timestamp of t
StartMarks(t) ==
  LET start_timestamp == transactions[t].start_timestamp
  IN IF start_timestamp \in DOMAIN marked_finished THEN marked_finished[start_timestamp] ELSE 0

\* C40: on a MAIN instance the start timestamp of every transaction is marked
\* finished in the commit log exactly once, by the call that terminates it
\* (Commit without deltas, Commit that succeeds, Commit that fails on a
\* constraint and aborts, Abort, the destructor of an active accessor), and
\* not at all while the transaction is active.
StartMarkedOnce ==
  \A t \in Started :
    /\ StartMarks(t) = IF transactions[t].is_transaction_active_ THEN 0 ELSE 1
    /\ transactions[t].start_timestamp \in commit_log <=> ~transactions[t].is_transaction_active_

\* a Commit has just failed on a unique constraint and aborted, its accessor is
\* destroyed later on, and another transaction has ended as well
StartMarkedOnceWitness ==
  /\ role = "MAIN"
  /\ \E t, u \in Started \ Active :
       /\ t # u
       /\ transactions[t].commit_timestamp_ # NoTimestamp
       /\ transactions[t].commit_timestamp = transactions[t].transaction_id
       /\ transactions[u].commit_timestamp_ = NoTimestamp
       /\ StartMarks(t) = 1 /\ StartMarks(u) = 1

----------------------------------------------------------------------------
(* The edge counter. *)

\* the out_edges entries of all the vertices in the skip-list
OutEdgesEntries ==
  Sum([v \in DOMAIN vertices |-> Cardinality(vertices[v].out_edges)], DOMAIN vertices)

\* C38: in every state without an active transaction the edge counter that
\* GetInfo reports equals the number of out_edges entries of all vertices.
EdgeCountMatchesOutEdges ==
  (~fatal /\ Active = {}) => edge_count_ = OutEdgesEntries

\* no transaction is active after one created an edge and committed, one moved
\* an end of an edge, and one changed edges and aborted
EdgeCountMatchesOutEdgesWitness ==
  /\ ~fatal /\ Active = {}
  /\ edge_count_ > RecoveredEdges
  /\ edge_count_ = OutEdgesEntries
  /\ Len(garbage_undo_buffers) > 0

----------------------------------------------------------------------------
(* Progress of the garbage collector. *)

\* the storage with constraints, its garbage collector run again and again
\* (the periodic gc_runner_)
SpecProgress == InitConstraints /\ [][NextConstraints]_vars /\ WF_vars(CollectGarbage)

\* transaction t is an entry of committed_transactions_
InCommittedTransactions(t) ==
  \E i \in 1..Len(committed_transactions) : committed_transactions[i] = t

\* C39: every entry of committed_transactions_ is popped by a later
\* CollectGarbage pass once no transaction is active and no accessor is left
\* to finalise, whatever the history, a Commit that failed on a unique
\* constraint and aborted included (as long as the process lives).
CommittedTransactionsPopped ==
  \A t \in 1..MaxTx :
    (InCommittedTransactions(t) /\ LiveAccessors = {}) ~>
      (~InCommittedTransactions(t) \/ fatal)

----------------------------------------------------------------------------
(* Commit, step by step: the order of the WAL append and of the store into the
   commit-timestamp cell that the deltas of the transaction share. *)

\* the steps of Commit on transaction t
EmplaceStep(t) == [kind |-> "emplace", lock |-> <<"TRANSACTION", t>>, file |-> ""]
AppendStep(t) == [kind |-> "append", lock |-> <<"TRANSACTION", t>>, file |-> "WAL"]
StoreStep(t) == [kind |-> "store", lock |-> <<"TRANSACTION", t>>, file |-> ""]
MarkStep(t) == [kind |-> "mark", lock |-> <<"TRANSACTION", t>>, file |-> ""]

\* (a Commit that stores the commit timestamp before it appends to the WAL)
CommitStepsStoreFirst(t) ==
  <<LockStep(engine_lock_), EmplaceStep(t), StoreStep(t), AppendStep(t),
    UnlockStep(engine_lock_), MarkStep(t)>>

\* Commit of a transaction with deltas that violates no constraint: engine_guard,
\* commit_timestamp_.emplace, AppendToWalDataManipulation, the store into
\* transaction_.commit_timestamp, engine_guard.unlock(), MarkFinished
CommitSteps(t) ==
  <<LockStep(engine_lock_), EmplaceStep(t), AppendStep(t), StoreStep(t),
    UnlockStep(engine_lock_), MarkStep(t)>>

\* the transactions a thread is committing
Committing ==
  {t \in Started : \E th \in DOMAIN threads : \E i \in 1..Len(threads[th].script) :
     threads[th].script[i].lock = <<"TRANSACTION", t>>}

\* a thread calls Commit on an active transaction with deltas
CommitEnter(th, t) ==
  /\ ~fatal
  /\ threads[th] = IdleThread
  /\ t \in Active \ Committing
  /\ transactions[t].deltas # << >>
  /\ threads' = [threads EXCEPT ![th] = [IdleThread EXCEPT !.op = "Commit",
                                                          !.script = CommitSteps(t)]]
  /\ UnchangedStorage

\* the thread inside Commit takes its next step
CommitStep(th) ==
  /\ ~fatal
  /\ threads[th].op = "Commit"
  /\ threads[th].script # << >>
  /\ LET step == Head(threads[th].script)
         rest == Tail(threads[th].script)
         t == step.lock[2]
         tx == transactions[t]
     IN /\ step.kind = "lock" => LockHolders(step.lock) = {}
        /\ threads' =
             [threads EXCEPT ![th] =
                IF rest = << >> THEN IdleThread
                ELSE [@ EXCEPT !.script = rest,
                               !.held = CASE step.kind = "lock" -> @ \cup {step.lock}
                                          [] step.kind = "unlock" -> @ \ {step.lock}
                                          [] OTHER -> @]]
        /\ timestamp_' = IF step.kind = "emplace" THEN TimestampAfterCommit(NoTimestamp)
                         ELSE timestamp_
        /\ wal_file' = IF step.kind = "append" /\ role = "MAIN"
                         THEN AppendToWalDataManipulation(wal_file, t, tx.commit_timestamp_)
                         ELSE wal_file
        /\ WalFilesAfterAppend(step.kind = "append" /\ role = "MAIN")
        /\ transactions' =
             CASE step.kind = "emplace" ->
                    [transactions EXCEPT ![t].commit_timestamp_ = CommitTimestamp(NoTimestamp)]
               [] step.kind = "store" ->
                    [transactions EXCEPT ![t].commit_timestamp = tx.commit_timestamp_]
               [] step.kind = "mark" ->
                    [transactions EXCEPT ![t] = Finished(@, tx.deltas)]
               [] OTHER -> transactions
        /\ history' = IF step.kind = "store"
                        THEN history \cup CommittedVersions(t, tx.commit_timestamp_)
                        ELSE history
        /\ commit_log' = IF step.kind = "mark"
                           THEN MarkFinished(commit_log, tx.start_timestamp) ELSE commit_log
        /\ marked_finished' = IF step.kind = "mark"
                                THEN CountMark(marked_finished, tx.start_timestamp)
                                ELSE marked_finished
        /\ result' = IF step.kind = "mark" THEN Result(t, "Commit", "OK") ELSE result
  /\ UNCHANGED <<role, gc_full_scan_vertices_delete_, gc_full_scan_edges_delete_,
                 properties_on_edges, snapshot_wal_mode, backup_directory_, storage_mode_,
                 uuid_, snapshot_directory_, restarts, vertices, edges, vertex_id_, edge_id_,
                 transaction_id_, edge_count_, committed_transactions, garbage_undo_buffers,
                 deleted_vertices, deleted_edges, garbage_vertices, existence_constraints,
                 unique_constraints, fatal>>

\* transactions begin under the engine lock and write while others commit
NextCommitSteps ==
  \/ LockHolders(engine_lock_) = {} /\ CreateTransaction
  \/ \E t \in Writers \ Committing : CreateVertex(t)
  \/ \E t \in Writers \ Committing : \E v \in VertexAccessors(t), label \in LabelIds :
        VertexAddLabel(t, v, label)
  \/ \E th \in Threads : \E t \in Active : CommitEnter(th, t)
  \/ \E th \in Threads : CommitStep(th)

SpecCommitSteps == Init /\ [][NextCommitSteps]_vars

\* the commit-timestamp cell of t holds a commit timestamp
Stored(t) == transactions[t].commit_timestamp # transactions[t].transaction_id

\* the WAL holds the TRANSACTION_END record of commit timestamp ts
WalEnded(ts) == \E i \in 1..Len(wal_file) : wal_file[i] = WalTransactionEnd(ts)

\* C36: on MAIN with a WAL, whenever the shared commit-timestamp cell of a
\* transaction holds its commit timestamp, the WAL already holds the
\* transaction's records up to TRANSACTION_END.
WalBeforeCommitTimestamp ==
  \A t \in Started : (Stored(t) /\ role = "MAIN" /\ InitializeWalFile) =>
                       WalEnded(transactions[t].commit_timestamp)

\* a Commit has appended TRANSACTION_END and has not yet stored the commit
\* timestamp, while another transaction's Commit is over
WalBeforeCommitTimestampWitness ==
  \E t, u \in Started :
    /\ ~Stored(t)
    /\ transactions[t].commit_timestamp_ # NoTimestamp
    /\ WalEnded(transactions[t].commit_timestamp_)
    /\ Stored(u) /\ ~transactions[u].is_transaction_active_

----------------------------------------------------------------------------
(* CreateVertexEx(gid) and CreateEdgeEx(from, to, edge_type, gid): the objects
   a replica creates with the ids of the main instance. The id counter is
   loaded and then stored, in two steps. *)

MaxExGid == 4

\* the gids the main instance may send
ExGids == 0..MaxExGid

\* the store that ends the update of an id counter: the counter was loaded as
\* loaded, the object gets gid
IdStoreStep(kind, call, loaded) ==
  [kind |-> "store " \o kind, lock |-> call, file |-> "", loaded |-> loaded]

\* (a store of the loaded value plus one, whatever the gid)
RaisedIdIgnoringGid(loaded, gid) == loaded + 1

\* std::max(counter.load(), gid.AsUint() + 1)
RaisedId(loaded, gid) == Max({loaded, gid + 1})

\* the transactions a thread is inside a call of
InsideCall ==
  {threads[th].script[1].lock[1] :
     th \in {x \in DOMAIN threads : threads[x].op \in {"CreateVertexEx", "CreateEdgeEx"}}}

\* every gid of a vertex in the skip-list and of an edge of a vertex is below
\* the counter the next CreateVertex / CreateEdge draws from
EdgeGidsInUse ==
  DOMAIN edges \cup UNION {{l[3] : l \in vertices[v].out_edges} : v \in DOMAIN vertices}
IdsAboveEveryGid ==
  /\ \A gid \in DOMAIN vertices : gid < vertex_id_
  /\ \A gid \in EdgeGidsInUse : gid < edge_id_

\* CreateVertexEx(gid) up to vertex_id_.load()
CreateVertexExLoad(th, t, gid) ==
  /\ CanWrite(t)
  /\ threads[th] = IdleThread
  /\ t \notin InsideCall
  /\ gid \notin DOMAIN vertices
  /\ threads' = [threads EXCEPT ![th] =
                   [IdleThread EXCEPT !.op = "CreateVertexEx",
                                      !.script = <<IdStoreStep("vertex_id_", <<t, gid>>, vertex_id_)>>]]
  /\ UnchangedStorage

\* CreateVertexEx(gid) from vertex_id_.store() on: the vertex is inserted with
\* its DELETE_OBJECT delta (MG_ASSERT(inserted))
CreateVertexExStore(th) ==
  /\ ~fatal
  /\ threads[th].op = "CreateVertexEx"
  /\ LET step == Head(threads[th].script)
         t == step.lock[1]
         gid == step.lock[2]
         d == MkDelta(t, Len(transactions[t].deltas) + 1, "DELETE_OBJECT", 0, 0, Null, NoLink)
     IN /\ vertex_id_' = RaisedId(step.loaded, gid)
        /\ IF gid \in DOMAIN vertices
             THEN /\ fatal' = TRUE
                  /\ UNCHANGED <<vertices, transactions, result>>
             ELSE /\ vertices' = vertices @@ (gid :> NewVertex(<<d>>))
                  /\ transactions' = AfterWrite(t, <<BufferEntry("VERTEX", gid, d)>>)
                  /\ result' = Result(t, "CreateVertexEx", "OK")
                  /\ fatal' = fatal
  /\ threads' = [threads EXCEPT ![th] = IdleThread]
  /\ UNCHANGED <<edges, edge_id_, edge_count_>>
  /\ UNCHANGED <<role, gc_full_scan_vertices_delete_, gc_full_scan_edges_delete_,
                 properties_on_edges, snapshot_wal_mode, backup_directory_, storage_mode_,
                 uuid_, snapshot_directory_, restarts, timestamp_, transaction_id_,
                 committed_transactions, garbage_undo_buffers, deleted_vertices, deleted_edges,
                 garbage_vertices, commit_log, marked_finished, existence_constraints,
                 unique_constraints, wal_file, wal_file_, wal_seq_num_, wal_directory_, history>>

\* CreateEdgeEx up to edge_id_.load(): the vertex locks are taken by gid order
\* and the checks on the two vertices made
CreateEdgeExLoad(th, t, from, to, edge_type, gid) ==
  /\ CanWrite(t)
  /\ threads[th] = IdleThread
  /\ t \notin InsideCall
  /\ from \in VertexAccessors(t)
  /\ to \in VertexAccessors(t)
  /\ gid \notin EdgeGidsInUse
  /\ LockHolders(VertexLock(from)) = {} /\ LockHolders(VertexLock(to)) = {}
  /\ LET error == CreateEdgeError(t, from, to)
     IN IF error = "OK"
          THEN /\ threads' = [threads EXCEPT ![th] =
                    [IdleThread EXCEPT
                       !.op = "CreateEdgeEx",
                       !.held = {VertexLock(from), VertexLock(to)},
                       !.script = <<IdStoreStep("edge_id_", <<t, gid, from, to, edge_type>>,
                                                edge_id_)>>]]
               /\ UNCHANGED result
          ELSE /\ result' = Result(t, "CreateEdgeEx", error)
               /\ UNCHANGED threads
  /\ UNCHANGED <<role, gc_full_scan_vertices_delete_, gc_full_scan_edges_delete_,
                 properties_on_edges, vertices, edges, vertex_id_, edge_id_, timestamp_,
                 transaction_id_, edge_count_, transactions, committed_transactions,
                 garbage_undo_buffers, deleted_vertices, deleted_edges, garbage_vertices,
                 commit_log, marked_finished, existence_constraints, unique_constraints,
                 wal_file, wal_file_, wal_seq_num_, wal_directory_, fatal, history, snapshot_wal_mode, uuid_, snapshot_directory_,
                 restarts, backup_directory_, storage_mode_>>

\* CreateEdgeEx from edge_id_.store() on: the edge is inserted when edges have
\* properties (MG_ASSERT(inserted)), the two vertices linked, the edge counted
CreateEdgeExStore(th) ==
  /\ ~fatal
  /\ threads[th].op = "CreateEdgeEx"
  /\ LET step == Head(threads[th].script)
         t == step.lock[1]
         gid == step.lock[2]
         from == step.lock[3]
         to == step.lock[4]
         edge_type == step.lock[5]
         base  == Len(transactions[t].deltas)
         k     == IF properties_on_edges THEN 1 ELSE 0
         de    == MkDelta(t, base + 1, "DELETE_OBJECT", 0, 0, Null, NoLink)
         dout  == MkDelta(t, base + k + 1, "REMOVE_OUT_EDGE", 0, 0, Null, <<edge_type, to, gid>>)
         din   == MkDelta(t, base + k + 2, "REMOVE_IN_EDGE", 0, 0, Null, <<edge_type, from, gid>>)
     IN /\ edge_id_' = RaisedId(step.loaded, gid)
        /\ IF properties_on_edges /\ gid \in DOMAIN edges
             THEN /\ fatal' = TRUE
                  /\ UNCHANGED <<edges, vertices, transactions, edge_count_, result>>
             ELSE /\ edges' = IF properties_on_edges
                                THEN edges @@ (gid :> NewEdge(<<de>>)) ELSE edges
                  /\ vertices' = CreateEdgeVertices(from, to, edge_type, gid, dout, din)
                  /\ transactions' = AfterWrite(t,
                        (IF properties_on_edges THEN <<BufferEntry("EDGE", gid, de)>> ELSE << >>)
                        \o <<BufferEntry("VERTEX", from, dout), BufferEntry("VERTEX", to, din)>>)
                  /\ edge_count_' = edge_count_ + 1
                  /\ result' = Result(t, "CreateEdgeEx", "OK")
                  /\ fatal' = fatal
  /\ threads' = [threads EXCEPT ![th] = IdleThread]
  /\ UNCHANGED vertex_id_
  /\ UNCHANGED <<role, gc_full_scan_vertices_delete_, gc_full_scan_edges_delete_,
                 properties_on_edges, snapshot_wal_mode, backup_directory_, storage_mode_,
                 uuid_, snapshot_directory_, restarts, timestamp_, transaction_id_,
                 committed_transactions, garbage_undo_buffers, deleted_vertices, deleted_edges,
                 garbage_vertices, commit_log, marked_finished, existence_constraints,
                 unique_constraints, wal_file, wal_file_, wal_seq_num_, wal_directory_, history>>

\* threads create vertices and edges with given gids; CreateVertex and
\* CreateEdge draw the next local gid
NextCreateEx ==
  \/ CreateTransaction
  \/ \E th \in Threads : \E t \in Writers, gid \in ExGids : CreateVertexExLoad(th, t, gid)
  \/ \E th \in Threads : CreateVertexExStore(th)
  \/ \E th \in Threads : \E t \in Writers, gid \in ExGids :
        \E from, to \in VertexAccessors(t), edge_type \in EdgeTypeIds :
          CreateEdgeExLoad(th, t, from, to, edge_type, gid)
  \/ \E th \in Threads : CreateEdgeExStore(th)
  \/ \E t \in Writers \ InsideCall : CreateVertex(t)
  \/ \E t \in Writers \ InsideCall : \E from, to \in VertexAccessors(t), edge_type \in EdgeTypeIds :
        CreateEdge(t, from, to, edge_type)

SpecCreateEx == InitReplica /\ [][NextCreateEx]_vars

\* C34 as stated: the counters are raised by an atomic read-modify-write, so
\* that, whatever the callers do, the next locally allocated Gid is greater
\* than every Gid in use.
IdsAlwaysAboveEveryGid == ~fatal => IdsAboveEveryGid

\* thread th ends a call whose load still is the value of the counter
StoresOnLoadedCounter(th) ==
  \/ /\ CreateVertexExStore(th)
     /\ Head(threads[th].script).loaded = vertex_id_
  \/ /\ CreateEdgeExStore(th)
     /\ Head(threads[th].script).loaded = edge_id_

\* C34, amended: CreateVertexEx(gid) and CreateEdgeEx(..., gid) raise the id
\* counter to max(loaded, gid + 1) with a load followed by a store, which is
\* not an atomic read-modify-write; when no other call has changed the counter
\* between the load and the store (the replication applier is the only
\* caller), the next locally allocated Gid stays greater than every Gid in use.
IdsAboveEveryGidUnlessRaced ==
  [][\A th \in Threads :
       (StoresOnLoadedCounter(th) /\ IdsAboveEveryGid /\ ~fatal') => IdsAboveEveryGid']_vars

\* a call has raised a counter over a gap: the gid it was given is above the
\* counter it loaded
IdsAboveEveryGidUnlessRacedWitness ==
  /\ IdsAboveEveryGid
  /\ \/ vertex_id_ > RecoveredVertices + 1 /\ vertex_id_ - 1 \in DOMAIN vertices
        /\ vertex_id_ - 2 \notin DOMAIN vertices
     \/ edge_id_ > RecoveredEdges + 1 /\ edge_id_ - 1 \in EdgeGidsInUse
        /\ edge_id_ - 2 \notin EdgeGidsInUse

----------------------------------------------------------------------------
(* The storage after recovery is used again. *)

\* the durability specification with edges created from a vertex to itself
NextRecovered ==
  \/ NextDurability
  \/ \E t \in Writers : \E v \in VertexAccessors(t), edge_type \in EdgeTypeIds :
        CreateEdge(t, v, v, edge_type)

SpecRecovered == InitDurability /\ [][NextRecovered]_vars

\* the timestamps in the WAL and in the snapshots of this storage
TimestampsInFiles ==
  {wal_file[i].timestamp : i \in DOMAIN wal_file}
  \cup {snapshot_directory_[i].start_timestamp :
          i \in {k \in DOMAIN snapshot_directory_ : snapshot_directory_[k].uuid = uuid_}}

\* transaction t created vertex v and an edge from v to v
CreatedVertexWithSelfEdge(t, v) ==
  /\ \E i \in DOMAIN transactions[t].deltas :
       LET b == transactions[t].deltas[i]
       IN  b.kind = "VERTEX" /\ b.gid = v /\ b.d.action = "DELETE_OBJECT"
  /\ \E i \in DOMAIN transactions[t].deltas :
       LET b == transactions[t].deltas[i]
       IN  b.kind = "VERTEX" /\ b.gid = v /\ b.d.action = "REMOVE_OUT_EDGE" /\ b.d.link[2] = v

----------------------------------------------------------------------------
(* CollectGarbage on concurrent threads: gc_lock_ is tried, never waited for. *)

gc_lock_ == <<"GC", 0>>

\* std::unique_lock gc_guard(gc_lock_, std::try_to_lock), and the two phases
\* of the collection
TryLockStep(lock) == [kind |-> "try_lock", lock |-> lock, file |-> ""]
CollectStep == [kind |-> "collect", lock |-> <<"", 0>>, file |-> ""]

\* (a pass that collects without the lock)
GcScriptUnguarded == <<CollectStep>>

\* CollectGarbage<false>(): try gc_lock_, collect, release at the return
GcScript == <<TryLockStep(gc_lock_), CollectStep, UnlockStep(gc_lock_)>>

\* the next step of thread th is of kind kind
AtStep(th, kind) ==
  /\ threads[th].op = "CollectGarbage"
  /\ threads[th].script # << >>
  /\ Head(threads[th].script).kind = kind

\* gc_guard.owns_lock() or the return
GcTryLock(th) ==
  /\ AtStep(th, "try_lock")
  /\ threads' = [threads EXCEPT ![th] =
                   IF LockHolders(Head(threads[th].script).lock) = {}
                     THEN [@ EXCEPT !.script = Tail(@), !.held = @ \cup {Head(threads[th].script).lock}]
                     ELSE IdleThread]
  /\ UnchangedStorage

\* the collection phases of the pass of thread th
GcCollect(th) ==
  /\ AtStep(th, "collect")
  /\ CollectGarbagePhases(FALSE)
  /\ threads' = [threads EXCEPT ![th] = IF Tail(@.script) = << >> THEN IdleThread
                                        ELSE [@ EXCEPT !.script = Tail(@)]]
  /\ UNCHANGED storage_mode_

\* transactions write and end while two threads call CollectGarbage
NextGcLock ==
  \/ CreateTransaction
  \/ \E t \in Writers : CreateVertex(t)
  \/ \E t \in Writers : \E v \in VertexAccessors(t), label \in LabelIds :
        VertexAddLabel(t, v, label)
  \/ \E t \in Active : Commit(t, NoTimestamp)
  \/ \E t \in Active : Abort(t)
  \/ \E t \in Started : DestroyAccessor(t)
  \/ \E th \in Threads : Call(th, "CollectGarbage", GcScript)
  \/ \E th \in Threads : GcTryLock(th)
  \/ \E th \in Threads : GcCollect(th)
  \/ \E th \in Threads : AtStep(th, "unlock") /\ Step(th)

SpecGcLock == Init /\ [][NextGcLock]_vars

\* what a pass may modify: the chains, the lists and the skip-lists
CollectedState ==
  <<vertices, edges, transactions, committed_transactions, garbage_undo_buffers,
    deleted_vertices, deleted_edges, garbage_vertices, unique_constraints>>

\* C31: at most one CollectGarbage pass is in its collection phases at any
\* time; a call that finds gc_lock_ held returns at once, without waiting and
\* without modifying a chain, a list or a skip-list.
OneCollectGarbagePass ==
  /\ [](Cardinality(LockHolders(gc_lock_)) <= 1)
  /\ [](\A th \in Threads : AtStep(th, "try_lock") => ENABLED GcTryLock(th))
  /\ [][\A th \in Threads :
          /\ GcCollect(th) => LockHolders(gc_lock_) = {th}
          /\ (GcTryLock(th) /\ LockHolders(gc_lock_) # {}) =>
                (threads'[th] = IdleThread /\ UNCHANGED CollectedState)]_vars

\* a call is about to try gc_lock_ while the other thread holds it and has a
\* committed transaction to unlink
OneCollectGarbagePassWitness ==
  \E th, other \in Threads :
    /\ AtStep(th, "try_lock")
    /\ AtStep(other, "collect")
    /\ gc_lock_ \in threads[other].held
    /\ committed_transactions # << >>


----------------------------------------------------------------------------
(* InMemoryAccessor::DetachDelete and the full scans of CollectGarbage. An
   IN_MEMORY_ANALYTICAL transaction creates no delta: what it deletes is marked
   deleted and nothing else, and only a full scan of the skip-lists finds it. *)

\* transaction_.storage_mode: SetStorageMode waits for every accessor to be
\* gone, so the mode a transaction was created with is the mode of the storage
\* for as long as the transaction lives
TransactionStorageMode(t) == storage_mode_

\* the entries of the adjacency lists of vertex v, as edge accessors
IncidentEdges(v) ==
  {[edge |-> l[3], edge_type |-> l[1], from_vertex |-> v, to_vertex |-> l[2]] :
     l \in vertices[v].out_edges}
  \cup {[edge |-> l[3], edge_type |-> l[1], from_vertex |-> l[2], to_vertex |-> v] :
          l \in vertices[v].in_edges}

\* the edges DetachDelete deletes: those given and, with detach, those incident
\* to the vertices it deletes, as long as they are still on the adjacency lists
EdgesToDelete(nodes, edge_accessors, detach) ==
  {ea \in edge_accessors \cup (IF detach THEN UNION {IncidentEdges(v) : v \in nodes} ELSE {}) :
     /\ ea.from_vertex \in DOMAIN vertices
     /\ <<ea.edge_type, ea.to_vertex, ea.edge>> \in vertices[ea.from_vertex].out_edges}

\* a set of edge accessors / of vertices in the order of their gids
RECURSIVE EdgesByGid(_)
EdgesByGid(S) ==
  IF S = {} THEN << >>
  ELSE LET ea == CHOOSE x \in S : \A y \in S : x.edge <= y.edge
       IN  <<ea>> \o EdgesByGid(S \ {ea})

RECURSIVE VerticesByGid(_)
VerticesByGid(S) ==
  IF S = {} THEN << >> ELSE <<Min(S)>> \o VerticesByGid(S \ {Min(S)})

\* the deltas a transactional deletion links, the ones Abort undoes: per edge
\* RECREATE_OBJECT on the edge, ADD_IN_EDGE on its target and ADD_OUT_EDGE on
\* its source; per vertex RECREATE_OBJECT
RECURSIVE DetachDeleteDeltas(_, _, _, _)
DetachDeleteDeltas(t, base, es, ns) ==
  IF es # << >>
    THEN LET ea == Head(es)
             k  == IF properties_on_edges THEN 1 ELSE 0
         IN (IF properties_on_edges
               THEN <<BufferEntry("EDGE", ea.edge,
                        MkDelta(t, base + 1, "RECREATE_OBJECT", 0, 0, Null, NoLink))>>
               ELSE << >>)
            \o <<BufferEntry("VERTEX", ea.to_vertex,
                   MkDelta(t, base + k + 1, "ADD_IN_EDGE", 0, 0, Null,
                           <<ea.edge_type, ea.from_vertex, ea.edge>>)),
                 BufferEntry("VERTEX", ea.from_vertex,
                   MkDelta(t, base + k + 2, "ADD_OUT_EDGE", 0, 0, Null,
                           <<ea.edge_type, ea.to_vertex, ea.edge>>))>>
            \o DetachDeleteDeltas(t, base + k + 2, Tail(es), ns)
  ELSE IF ns # << >>
    THEN <<BufferEntry("VERTEX", Head(ns),
             MkDelta(t, base + 1, "RECREATE_OBJECT", 0, 0, Null, NoLink))>>
         \o DetachDeleteDeltas(t, base + 1, es, Tail(ns))
  ELSE << >>

\* what DetachDelete returns for these arguments
DetachDeleteError(t, nodes, es, detach) ==
  LET touched == nodes \cup {ea.from_vertex : ea \in es} \cup {ea.to_vertex : ea \in es}
  IN  IF \E v \in touched : ~PrepareForWrite(t, vertices[v].delta) THEN "SERIALIZATION_ERROR"
      ELSE IF properties_on_edges
              /\ \E ea \in es : ea.edge \in DOMAIN edges
                                  /\ ~PrepareForWrite(t, edges[ea.edge].delta)
        THEN "SERIALIZATION_ERROR"
      ELSE IF ~detach /\ \E v \in nodes : IncidentEdges(v) \ es # {} THEN "VERTEX_HAS_EDGES"
      ELSE "OK"

\* the skip-lists once the edges es and the vertices ns are deleted
DeletedEdgeLinks(vs, es) ==
  [v \in DOMAIN vs |->
     [vs[v] EXCEPT
        !.out_edges = @ \ {<<ea.edge_type, ea.to_vertex, ea.edge>> :
                             ea \in {x \in es : x.from_vertex = v}},
        !.in_edges = @ \ {<<ea.edge_type, ea.from_vertex, ea.edge>> :
                            ea \in {x \in es : x.to_vertex = v}}]]

\* CreateAndLinkDelta on the edges, in the order of the buffer
RECURSIVE LinkEdgeDeltas(_, _)
LinkEdgeDeltas(es, bs) ==
  IF bs = << >> THEN es
  ELSE LinkEdgeDeltas(LinkEdgeDelta(es, Head(bs).gid, Head(bs).d), Tail(bs))

MarkedDeleted(objects, gids) ==
  [o \in DOMAIN objects |->
     IF o \in gids THEN [objects[o] EXCEPT !.deleted = TRUE] ELSE objects[o]]

\* inform_gc_vertex_deletion / inform_gc_edge_deletion: the deletion was not
\* transactional and the next CollectGarbage has to scan for it
InformGc(t, deleted) ==
  deleted # {} /\ TransactionStorageMode(t) = "IN_MEMORY_ANALYTICAL"

DetachDelete(t, nodes, edge_accessors, detach) ==
  /\ CanWrite(t)
  /\ nodes \subseteq VertexAccessors(t)
  /\ edge_accessors \subseteq AllEdgeAccessors(t)
  /\ LET ns == {v \in nodes : ~vertices[v].deleted}
         es == EdgesToDelete(ns, edge_accessors, detach)
         error == DetachDeleteError(t, ns, es, detach)
         analytical == TransactionStorageMode(t) = "IN_MEMORY_ANALYTICAL"
         bs == IF analytical THEN << >>
               ELSE DetachDeleteDeltas(t, Len(transactions[t].deltas),
                                       EdgesByGid(es), VerticesByGid(ns))
         vertex_deltas == SelectSeq(bs, LAMBDA b : b.kind = "VERTEX")
         edge_deltas == SelectSeq(bs, LAMBDA b : b.kind = "EDGE")
         edge_gids == {ea.edge : ea \in es} \cap DOMAIN edges
     IN /\ result' = Result(t, "DetachDelete", error)
        /\ IF error = "OK"
             THEN /\ vertices' = MarkedDeleted(
                                   DeletedEdgeLinks(LinkVertexDeltas(vertices, vertex_deltas), es),
                                   ns)
                  /\ edges' = MarkedDeleted(LinkEdgeDeltas(edges, edge_deltas), edge_gids)
                  /\ edge_count_' = edge_count_ - Cardinality(es)
                  /\ transactions' = AfterWrite(t, bs)
                  /\ gc_full_scan_vertices_delete_' =
                       (gc_full_scan_vertices_delete_ \/ InformGc(t, ns))
                  /\ gc_full_scan_edges_delete_' =
                       (gc_full_scan_edges_delete_ \/ InformGc(t, es))
             ELSE UNCHANGED <<vertices, edges, edge_count_, transactions,
                              gc_full_scan_vertices_delete_, gc_full_scan_edges_delete_>>
  /\ UNCHANGED <<role, properties_on_edges, snapshot_wal_mode, threads, backup_directory_,
                 storage_mode_, uuid_, snapshot_directory_, restarts, timestamp_,
                 transaction_id_, committed_transactions, garbage_undo_buffers,
                 deleted_vertices, deleted_edges, garbage_vertices, commit_log,
                 marked_finished, existence_constraints, unique_constraints, wal_file, wal_file_, wal_seq_num_, wal_directory_,
                 history, vertex_id_, edge_id_, fatal>>

\* the vertex sets and edge sets a caller hands to DetachDelete
DeleteSets(S) == {X \in SUBSET S : Cardinality(X) <= 1}

NextFullScan ==
  \/ CreateTransaction
  \/ \E t \in Writers : \E nodes \in DeleteSets(VertexAccessors(t)),
                           edge_accessors \in DeleteSets(AllEdgeAccessors(t)),
                           detach \in BOOLEAN :
        DetachDelete(t, nodes, edge_accessors, detach)
  \/ \E t \in Active : Commit(t, NoTimestamp)
  \/ \E t \in Active : Abort(t)
  \/ \E t \in Started : DestroyAccessor(t)
  \/ CollectGarbage
  \/ \E storage_mode \in StorageModes : SetStorageMode(storage_mode)

SpecFullScan == Init /\ [][NextFullScan]_vars

\* a step of an IN_MEMORY_ANALYTICAL transaction that marks a vertex deleted /
\* that takes an edge off the adjacency lists
AnalyticalVertexDeletion ==
  /\ storage_mode_ = "IN_MEMORY_ANALYTICAL"
  /\ \E t \in Active : transactions'[t].ops > transactions[t].ops
  /\ \E v \in DOMAIN vertices \cap DOMAIN vertices' :
       ~vertices[v].deleted /\ vertices'[v].deleted

AnalyticalEdgeDeletion ==
  /\ storage_mode_ = "IN_MEMORY_ANALYTICAL"
  /\ \E t \in Active : transactions'[t].ops > transactions[t].ops
  /\ edge_count_' < edge_count_

\* a CollectGarbage pass that runs to its end
CollectGarbagePass == \E force \in BOOLEAN : CollectGarbagePhases(force)

DeletedWithoutDelta(objects) ==
  {o \in DOMAIN objects : objects[o].deleted /\ objects[o].delta = << >>}

DeletedVerticesAfter == DeletedWithoutDelta(vertices)'
DeletedEdgesAfter == DeletedWithoutDelta(edges)'

\* C32: a DetachDelete of an IN_MEMORY_ANALYTICAL transaction that deletes a
\* vertex (an edge) sets the full-scan flag for vertices (edges); a
\* CollectGarbage pass that runs clears both flags, and when the flag for
\* vertices (edges) was set it leaves no vertex (edge) in the skip-list that is
\* marked deleted and has no delta.
FullScanAfterAnalyticalDelete ==
  [][/\ AnalyticalVertexDeletion => gc_full_scan_vertices_delete_'
     /\ AnalyticalEdgeDeletion => gc_full_scan_edges_delete_'
     /\ CollectGarbagePass =>
          /\ ~gc_full_scan_vertices_delete_' /\ ~gc_full_scan_edges_delete_'
          /\ gc_full_scan_vertices_delete_ => DeletedVerticesAfter = {}
          /\ gc_full_scan_edges_delete_ => DeletedEdgesAfter = {}]_vars

\* an analytical transaction that is still alive deleted vertex 0 with its
\* edge, and a pass of the garbage collector has removed the vertex
FullScanAfterAnalyticalDeleteWitness ==
  /\ storage_mode_ = "IN_MEMORY_ANALYTICAL"
  /\ Len(transactions) = 1 /\ transactions[1].is_transaction_active_
  /\ transactions[1].ops > 0
  /\ 0 \notin DOMAIN vertices
  /\ edge_count_ = 0
  /\ ~gc_full_scan_vertices_delete_ /\ ~gc_full_scan_edges_delete_

----------------------------------------------------------------------------
(* CollectGarbage delta by delta. The pass reads delta.prev without a lock,
   takes the lock of the object that owns the chain, and unlinks only if the
   delta is still where it was read; writers link deltas under the same lock
   between any two steps of the pass. *)

\* PreviousPtr::Pointer: the object that owns the chain, or the newer delta
\* (named by its transaction and its number in the buffer)
PreviousPtr(type, gid, tx, n) == [type |-> type, gid |-> gid, tx |-> tx, n |-> n]

PositionIn(chain, d) ==
  LET idx == {i \in 1..Len(chain) : chain[i] = d} IN IF idx = {} THEN 0 ELSE Min(idx)

\* delta.prev.Get() of the delta of buffer entry b
Prev(b) ==
  LET chain == IF ObjectExists(b.kind, b.gid) THEN Object(b.kind, b.gid).delta ELSE << >>
      p == PositionIn(chain, b.d)
  IN  IF p = 1 THEN PreviousPtr(b.kind, b.gid, 0, 0)
      ELSE IF p > 1 THEN PreviousPtr("DELTA", 0, chain[p - 1].tx, chain[p - 1].n)
      ELSE PreviousPtr("NULLPTR", 0, 0, 0)

\* (a pass that unlinks on what it read before it took the lock)
Unchecked(b, prev) == TRUE

\* the check under the lock: vertex->delta == &delta, edge->delta == &delta,
\* delta.prev.Get() == prev
StillPrev(b, prev) == Prev(b) = prev

\* prev_delta->next.store(nullptr): the chain ends with the delta prev names
CutAfter(chain, prev) ==
  LET idx == {i \in 1..Len(chain) : chain[i].tx = prev.tx /\ chain[i].n = prev.n}
  IN  IF idx = {} THEN chain ELSE SubSeq(chain, 1, Min(idx))

\* a step of the pass with the locals of the pass
GcStep(kind, gc) == [kind |-> kind, lock |-> gc_lock_, file |-> "", gc |-> gc]

\* the locals of the pass of thread th, and the delta it is at
GcLocals(th) == Head(threads[th].script).gc
GcFrontTransaction == Head(committed_transactions)
GcDelta(th) == transactions[GcFrontTransaction].deltas[GcLocals(th).i]

GcGoto(th, kind, gc) ==
  threads' = [threads EXCEPT ![th].script = <<GcStep(kind, gc)>>]

\* the end of the body of the for loop: the next delta of the transaction, or
\* the pop of the transaction
GcNextDelta(th, gc) ==
  IF gc.i < Len(transactions[GcFrontTransaction].deltas)
    THEN GcGoto(th, "prev", [gc EXCEPT !.i = @ + 1, !.retries = 0])
    ELSE GcGoto(th, "pop", gc)

\* what no step of the while loop changes
UnchangedByUnlinking ==
  UNCHANGED <<role, properties_on_edges, vertex_id_, edge_id_, timestamp_, transaction_id_,
              edge_count_, transactions, garbage_undo_buffers, garbage_vertices, commit_log,
              existence_constraints, unique_constraints, wal_file, wal_file_, wal_seq_num_, wal_directory_, result, history,
              snapshot_wal_mode, uuid_, snapshot_directory_, restarts, backup_directory_,
              storage_mode_, marked_finished>>

\* the pass up to the while loop: gc_lock_ is taken or the call returns,
\* OldestActive is read, the deleted lists are swapped out, the flags exchanged
GcEnter(th) ==
  /\ ~fatal
  /\ threads[th] = IdleThread
  /\ LockHolders(gc_lock_) = {}
  /\ threads' = [threads EXCEPT ![th] =
       [op |-> "CollectGarbage", held |-> {gc_lock_}, io |-> "",
        script |-> <<GcStep("front",
           [oldest_active_start_timestamp |-> OldestActive,
            current_deleted_vertices |-> deleted_vertices,
            current_deleted_edges |-> deleted_edges,
            need_full_scan_vertices |-> gc_full_scan_vertices_delete_,
            need_full_scan_edges |-> gc_full_scan_edges_delete_,
            run_index_cleanup |-> \/ committed_transactions # << >>
                                  \/ garbage_undo_buffers # << >>
                                  \/ gc_full_scan_vertices_delete_
                                  \/ gc_full_scan_edges_delete_,
            unlinked |-> << >>,
            i |-> 0,
            prev |-> PreviousPtr("NULLPTR", 0, 0, 0),
            retries |-> 0,          \* ghost: the retries made for the delta
            retried |-> FALSE])>>]] \* ghost: a delta was unlinked after a retry
  /\ deleted_vertices' = << >>
  /\ deleted_edges' = << >>
  /\ gc_full_scan_vertices_delete_' = FALSE
  /\ gc_full_scan_edges_delete_' = FALSE
  /\ UNCHANGED <<vertices, edges, committed_transactions, fatal>>
  /\ UnchangedByUnlinking

\* the head of the while loop: the front of committed_transactions_ and its
\* commit timestamp
GcFront(th) ==
  /\ ~fatal
  /\ AtStep(th, "front")
  /\ LET gc == GcLocals(th) IN
       IF \/ committed_transactions = << >>
          \/ transactions[GcFrontTransaction].commit_timestamp
               >= gc.oldest_active_start_timestamp
         THEN GcGoto(th, "finish", gc)
       ELSE IF transactions[GcFrontTransaction].deltas = << >>
         THEN GcGoto(th, "pop", gc)
       ELSE GcGoto(th, "prev", [gc EXCEPT !.i = 1, !.retries = 0])
  /\ UNCHANGED <<vertices, edges, committed_transactions, fatal, deleted_vertices,
                 deleted_edges, gc_full_scan_vertices_delete_, gc_full_scan_edges_delete_>>
  /\ UnchangedByUnlinking

\* auto prev = delta.prev.Get(), and the cases that need no lock
GcReadPrev(th) ==
  /\ ~fatal
  /\ AtStep(th, "prev")
  /\ LET gc == GcLocals(th)
         prev == Prev(GcDelta(th))
     IN /\ fatal' = (prev.type = "NULLPTR")
        /\ IF prev.type = "NULLPTR" THEN UNCHANGED threads
           ELSE IF /\ prev.type = "DELTA"
                   /\ transactions[prev.tx].commit_timestamp
                        = transactions[GcFrontTransaction].commit_timestamp
             THEN GcNextDelta(th, gc)
           ELSE GcGoto(th, "unlink", [gc EXCEPT !.prev = prev])
  /\ UNCHANGED <<vertices, edges, committed_transactions, deleted_vertices,
                 deleted_edges, gc_full_scan_vertices_delete_, gc_full_scan_edges_delete_>>
  /\ UnchangedByUnlinking

\* the part of the loop body under the lock of the object: the check, and
\* either the continue or the unlinking
GcUnlink(th) ==
  /\ ~fatal
  /\ AtStep(th, "unlink")
  /\ LET gc == GcLocals(th)
         b == GcDelta(th)
         prev == gc.prev
         after == [gc EXCEPT !.retried = @ \/ gc.retries > 0]
     IN IF ~StillPrev(b, prev)
          THEN /\ GcGoto(th, "prev", [gc EXCEPT !.retries = @ + 1])
               /\ UNCHANGED <<vertices, edges>>
        ELSE IF prev.type = "VERTEX"
          THEN /\ vertices' = [vertices EXCEPT ![prev.gid].delta = << >>]
               /\ GcNextDelta(th,
                    IF vertices[prev.gid].deleted
                      THEN [after EXCEPT !.current_deleted_vertices = Append(@, prev.gid)]
                      ELSE after)
               /\ UNCHANGED edges
        ELSE IF prev.type = "EDGE"
          THEN /\ edges' = [edges EXCEPT ![prev.gid].delta = << >>]
               /\ GcNextDelta(th,
                    IF edges[prev.gid].deleted
                      THEN [after EXCEPT !.current_deleted_edges = Append(@, prev.gid)]
                      ELSE after)
               /\ UNCHANGED vertices
        ELSE /\ IF b.kind = "VERTEX"
                  THEN /\ vertices' = [vertices EXCEPT ![b.gid].delta = CutAfter(@, prev)]
                       /\ UNCHANGED edges
                  ELSE /\ edges' = [edges EXCEPT ![b.gid].delta = CutAfter(@, prev)]
                       /\ UNCHANGED vertices
             /\ GcNextDelta(th, after)
  /\ UNCHANGED <<committed_transactions, fatal, deleted_vertices, deleted_edges,
                 gc_full_scan_vertices_delete_, gc_full_scan_edges_delete_>>
  /\ UnchangedByUnlinking

\* unlinked_undo_buffers.emplace_back(0, std::move(transaction->deltas));
\* committed_transactions.pop_front()
GcPop(th) ==
  /\ ~fatal
  /\ AtStep(th, "pop")
  /\ committed_transactions' = Tail(committed_transactions)
  /\ GcGoto(th, "front", [GcLocals(th) EXCEPT !.unlinked = Append(@, GcFrontTransaction)])
  /\ UNCHANGED <<vertices, edges, fatal, deleted_vertices, deleted_edges,
                 gc_full_scan_vertices_delete_, gc_full_scan_edges_delete_>>
  /\ UnchangedByUnlinking

\* the pass after the while loop, and the release of gc_lock_
GcFinish(th) ==
  /\ ~fatal
  /\ AtStep(th, "finish")
  /\ LET gc == GcLocals(th) IN
       CollectGarbageTail(FALSE,
         [oldest_active_start_timestamp |-> gc.oldest_active_start_timestamp,
          need_full_scan_vertices |-> gc.need_full_scan_vertices,
          need_full_scan_edges |-> gc.need_full_scan_edges,
          run_index_cleanup |-> gc.run_index_cleanup,
          unlinked |-> gc.unlinked,
          st |-> [vertices |-> vertices, edges |-> edges,
                  current_deleted_vertices |-> gc.current_deleted_vertices,
                  current_deleted_edges |-> gc.current_deleted_edges]])
  /\ threads' = [threads EXCEPT ![th] = IdleThread]
  /\ UNCHANGED <<committed_transactions, deleted_vertices, deleted_edges, storage_mode_,
                 gc_full_scan_vertices_delete_, gc_full_scan_edges_delete_>>

\* transactions write to the recovered vertices and to the recovered edge,
\* commit, abort and are destroyed between the steps of the passes
NextUnlinking ==
  \/ CreateTransaction
  \/ \E t \in Writers : \E v \in VertexAccessors(t), property \in PropertyIds,
                                value \in Values :
        VertexSetProperty(t, v, property, value)
  \/ \E t \in Writers : \E ea \in AllEdgeAccessors(t), property \in PropertyIds,
                                value \in Values :
        properties_on_edges /\ SetProperty(t, ea, property, value)
  \/ \E t \in Active : Commit(t, NoTimestamp)
  \/ \E t \in Active : Abort(t)
  \/ \E t \in Started : DestroyAccessor(t)
  \/ \E th \in Threads : GcEnter(th)
  \/ \E th \in Threads : GcFront(th)
  \/ \E th \in Threads : GcReadPrev(th)
  \/ \E th \in Threads : GcUnlink(th)
  \/ \E th \in Threads : GcPop(th)
  \/ \E th \in Threads : GcFinish(th)

SpecUnlinking == Init /\ [][NextUnlinking]_vars

\* the chain of an object, empty once the object left the skip-list
ChainOf(kind, gid) == IF ObjectExists(kind, gid) THEN Object(kind, gid).delta ELSE << >>
ChainOfAfter(kind, gid) == ChainOf(kind, gid)'

\* every delta of an active transaction is on the chain of its object
WriterDeltasReachable ==
  \A t \in Active : \A i \in DOMAIN transactions[t].deltas :
    LET b == transactions[t].deltas[i] IN
      \E p \in DOMAIN ChainOf(b.kind, b.gid) : ChainOf(b.kind, b.gid)[p] = b.d

\* the objects of the model, as <<kind, gid>>
ChainOwners ==
  {<<"VERTEX", v>> : v \in DOMAIN vertices} \cup {<<"EDGE", e>> : e \in DOMAIN edges}

\* thread th is under the lock of an object with a delta that was the chain
\* head when it read delta.prev, and a newer delta of a writer is the head now
NewerDeltaOnTop(th) ==
  /\ AtStep(th, "unlink")
  /\ GcLocals(th).prev.type \in {"VERTEX", "EDGE"}
  /\ LET chain == ChainOf(GcLocals(th).prev.type, GcLocals(th).prev.gid) IN
       /\ chain # << >>
       /\ Head(chain) # GcDelta(th).d
       /\ Head(chain).tx \in Active

\* C35: when the pass is at a delta that was the head of the chain of a vertex
\* or of an edge and a writer has linked a newer delta on top of it, the step
\* under the lock of the object leaves the chains as they are and the pass
\* reads delta.prev again; no step of a pass takes the head off a chain that
\* starts with the delta of an active transaction; and every delta of an
\* active transaction stays on the chain of its object.
GcKeepsNewerDelta ==
  /\ []WriterDeltasReachable
  /\ [][\A th \in Threads :
          /\ (NewerDeltaOnTop(th) /\ threads'[th] # threads[th]) =>
               /\ AtStep(th, "prev")'
               /\ vertices' = vertices /\ edges' = edges
          /\ (threads[th].op = "CollectGarbage" /\ threads'[th] # threads[th]) =>
               \A o \in ChainOwners :
                 (ChainOf(o[1], o[2]) # << >> /\ Head(ChainOf(o[1], o[2])).tx \in Active) =>
                   /\ ChainOfAfter(o[1], o[2]) # << >>
                   /\ Head(ChainOfAfter(o[1], o[2])) = Head(ChainOf(o[1], o[2]))]_vars

\* a pass has retried a delta and then cut it off the delta of a writer that
\* is still active: the chain of the object holds the writer's delta alone
GcKeepsNewerDeltaWitness ==
  \E th \in Threads :
    /\ threads[th].op = "CollectGarbage"
    /\ GcLocals(th).retried
    /\ \E t \in Active : \E i \in DOMAIN transactions[t].deltas :
         ChainOf(transactions[t].deltas[i].kind, transactions[t].deltas[i].gid)
           = <<transactions[t].deltas[i].d>>

----------------------------------------------------------------------------
(* The rotation of the WAL files: transactions and schema operations append
   to the open file, and a new epoch finalises it. *)

\* InMemoryStorage::EstablishNewEpoch(): under engine_lock_, the open file is
\* finalised whatever its size
EstablishNewEpoch ==
  /\ ~fatal
  /\ wal_file_' = << >>
  /\ UNCHANGED <<role, properties_on_edges, vertices, edges, vertex_id_, edge_id_, timestamp_,
                 transaction_id_, edge_count_, transactions, committed_transactions,
                 garbage_undo_buffers, deleted_vertices, deleted_edges, garbage_vertices,
                 commit_log, existence_constraints, unique_constraints, wal_file, fatal,
                 result, history, snapshot_wal_mode, uuid_, snapshot_directory_,
                 restarts, backup_directory_, storage_mode_, threads, marked_finished,
                 gc_full_scan_vertices_delete_, gc_full_scan_edges_delete_,
                 wal_seq_num_, wal_directory_>>

NextWalFiles ==
  \/ CreateTransaction
  \/ \E t \in Writers : CreateVertex(t)
  \/ \E t \in Writers : \E v \in VertexAccessors(t), property \in PropertyIds,
                                value \in Values :
        VertexSetProperty(t, v, property, value)
  \/ \E t \in Active : Commit(t, NoTimestamp)
  \/ \E t \in Started : DestroyAccessor(t)
  \/ \E label \in LabelIds, properties \in ConstraintPropertySets :
        CreateUniqueConstraint(label, properties, NoTimestamp)
  \/ EstablishNewEpoch

SpecWalFiles == Init /\ [][NextWalFiles]_vars

\* the files of the directory that are finalised: all but the open one
FinalizedWalFiles ==
  IF wal_file_ = << >> THEN DOMAIN wal_directory_
  ELSE DOMAIN wal_directory_ \ {Len(wal_directory_)}
FinalizedWalFilesAfter == FinalizedWalFiles'

\* the records of one transaction, or the record of one schema operation, carry
\* its commit timestamp: they all are in one file
OneFilePerTransaction ==
  \A i, j \in DOMAIN wal_file :
    wal_file[i].timestamp = wal_file[j].timestamp =>
      \E k \in DOMAIN wal_directory_ :
        /\ wal_directory_[k].first <= i /\ i <= wal_directory_[k].last
        /\ wal_directory_[k].first <= j /\ j <= wal_directory_[k].last

\* file k of the directory ends with a TRANSACTION_END or with the record of a
\* schema operation
EndsComplete(wal, dir, k) ==
  /\ dir[k].first <= dir[k].last
  /\ dir[k].last \in DOMAIN wal
  /\ wal[dir[k].last].kind \in {"TRANSACTION", "OPERATION"}

\* the files a step finalises
FinalizedInStep == FinalizedWalFilesAfter \ FinalizedWalFiles

\* they end with a complete transaction or schema operation
FinalizedComplete ==
  \A k \in FinalizedInStep : EndsComplete(wal_file', wal_directory_', k)

SizeLimitReached(k) ==
  wal_directory_'[k].last - wal_directory_'[k].first + 1 >= wal_file_size_kibibytes

\* they have reached the size limit
FinalizedAtSizeLimit == \A k \in FinalizedInStep : SizeLimitReached(k)

\* they have reached the size limit, or the step appended nothing: the file
\* was finalised between two appends
FinalizedAtSizeLimitOrBetweenAppends ==
  \A k \in FinalizedInStep : SizeLimitReached(k) \/ wal_file' = wal_file

\* a file begun while the directory holds files has the sequence number after
\* the one of the newest of them
NextSequenceNumber ==
  (Len(wal_directory_') > Len(wal_directory_) /\ wal_directory_ # << >>) =>
    wal_directory_'[Len(wal_directory_')].seq_num
      = wal_directory_[Len(wal_directory_)].seq_num + 1

\* C33 as stated: all WAL records of one transaction, its TRANSACTION_END
\* included, are in a single WAL file; a file is finalised only after a
\* complete transaction (or schema operation) has been appended and the size
\* limit wal_file_size_kibibytes is reached; the next file begun has a
\* sequence number one greater than the finalised one.
FinalizedOnlyAtSizeLimit ==
  /\ []OneFilePerTransaction
  /\ [][FinalizedComplete /\ FinalizedAtSizeLimit /\ NextSequenceNumber]_vars

\* C33: all WAL records of one transaction, its TRANSACTION_END included, are
\* in a single WAL file; a file is finalised only after a complete transaction
\* (or schema operation) has been appended, and by an append only when the
\* size limit wal_file_size_kibibytes is reached (EstablishNewEpoch finalises
\* the open file between two appends whatever its size); the next file begun
\* has a sequence number one greater than the finalised one.
FinalizedBetweenTransactions ==
  /\ []OneFilePerTransaction
  /\ [][FinalizedComplete /\ FinalizedAtSizeLimitOrBetweenAppends /\ NextSequenceNumber]_vars

\* a finalised file holds more records than the limit, a transaction having
\* crossed it, and a file with the next sequence number follows
FinalizedBetweenTransactionsWitness ==
  \E k \in FinalizedWalFiles :
    /\ wal_directory_[k].last - wal_directory_[k].first + 1 > wal_file_size_kibibytes
    /\ wal_file[wal_directory_[k].last].action = "TRANSACTION_END"
    /\ k + 1 \in DOMAIN wal_directory_
    /\ wal_directory_[k + 1].seq_num = wal_directory_[k].seq_num + 1


====
